---------------------------- MODULE Spec2Model ----------------------------
(***************************************************************************)
(* rustyload: a load-generation engine.  The model covers                  *)
(*   - main(): building a LoadTestConfig from command-line arguments or    *)
(*     from the interactive prompts, the confirmation, and the dispatch to *)
(*     the protocol's run_load_test;                                       *)
(*   - protocols::http::run_load_test and protocols::flashkv::run_load_test*)
(*     (the semaphore-gated task spawner, the collection of the join       *)
(*     handles, the report);                                               *)
(*   - the two drivers (fire_single_request) and calculate_stats.          *)
(*                                                                         *)
(* Text is a sequence of one-character strings, so that parsing is done    *)
(* character by character as the code does it.                             *)
(***************************************************************************)
EXTENDS Integers, Sequences, FiniteSets, TLC

(***************************************************************************)
(* Bounds of the model.                                                    *)
(***************************************************************************)
\* largest request-count handed to run_load_test
MaxRequests == 3
\* largest explicit concurrency handed to run_load_test
MaxConcurrency == 2
\* largest request-count of the runs checked for completion under fairness
MaxFairRequests == 2
\* largest key range of the random-key generation
MaxKeyRange == 1
\* largest number of lines typed at the interactive "Command" prompt
MaxCustomLines == 1
\* longest sequence of outcomes handed to calculate_stats on its own
MaxOutcomes == 4
\* longest sequence of durations handed to percentile on its own
MaxData == 3
\* most tokens after the verb in a text handed to from_str on its own
MaxArguments == 3
\* largest range handed to with_random_key on its own
MaxRandomRange == 11
\* timeouts in seconds given to a driver followed against the clock
MaxTimeoutSecs == 1
\* the milliseconds the clock advances in one step
ClockStepMs == 500
\* the requests of a run followed against the clock
MaxTimedRequests == 2
\* the steps of the clock in a timed run
MaxTicks == 4

(***************************************************************************)
(* Program constants.                                                      *)
(***************************************************************************)
DefaultRequests == 100
DefaultConcurrency == 10
DefaultTimeoutSecs == 30
DefaultKeyRange == 1000
STATUS_OK == 200
STATUS_NOT_FOUND == 404
STATUS_ERROR == 500
STATUS_CONNECTION_ERROR == 503
STATUS_TIMEOUT == 504

(***************************************************************************)
(* Text helpers (str::to_uppercase, to_lowercase, trim, split_whitespace,  *)
(* starts_with, contains), restricted to ASCII.                            *)
(***************************************************************************)
UpperChars == <<"A","B","C","D","E","F","G","H","I","J","K","L","M",
                "N","O","P","Q","R","S","T","U","V","W","X","Y","Z">>
LowerChars == <<"a","b","c","d","e","f","g","h","i","j","k","l","m",
                "n","o","p","q","r","s","t","u","v","w","x","y","z">>
DigitChars == <<"0","1","2","3","4","5","6","7","8","9">>
WhiteChars == {" ", "\t", "\n", "\r"}

IndexIn(c, chars) == CHOOSE i \in 1..Len(chars) : chars[i] = c
IsIn(c, chars) == \E i \in 1..Len(chars) : chars[i] = c
ToUpperChar(c) == IF IsIn(c, LowerChars) THEN UpperChars[IndexIn(c, LowerChars)] ELSE c
ToLowerChar(c) == IF IsIn(c, UpperChars) THEN LowerChars[IndexIn(c, UpperChars)] ELSE c
ToUpper(s) == [i \in 1..Len(s) |-> ToUpperChar(s[i])]
ToLower(s) == [i \in 1..Len(s) |-> ToLowerChar(s[i])]

StartsWith(s, p) == Len(p) <= Len(s) /\ SubSeq(s, 1, Len(p)) = p
EndsWith(s, p) == Len(p) <= Len(s) /\ SubSeq(s, Len(s) - Len(p) + 1, Len(s)) = p
Contains(s, p) == \E i \in 1..(Len(s) - Len(p) + 1) : SubSeq(s, i, i + Len(p) - 1) = p

RECURSIVE TrimStart(_)
TrimStart(s) == IF s # <<>> /\ Head(s) \in WhiteChars THEN TrimStart(Tail(s)) ELSE s
RECURSIVE TrimEnd(_)
TrimEnd(s) ==
    IF s # <<>> /\ s[Len(s)] \in WhiteChars THEN TrimEnd(SubSeq(s, 1, Len(s) - 1)) ELSE s
Trim(s) == TrimEnd(TrimStart(s))

\* the first whitespace-free token of a text that starts with a non-blank
RECURSIVE FirstToken(_)
FirstToken(s) ==
    IF s = <<>> \/ Head(s) \in WhiteChars THEN <<>>
    ELSE <<Head(s)>> \o FirstToken(Tail(s))

RECURSIVE SplitWhitespace(_)
SplitWhitespace(s) ==
    LET t == TrimStart(s) IN
    IF t = <<>> THEN <<>>
    ELSE LET tok == FirstToken(t) IN
         <<tok>> \o SplitWhitespace(SubSeq(t, Len(tok) + 1, Len(t)))

\* [T]::join(" ")
RECURSIVE JoinSpace(_)
JoinSpace(parts) ==
    IF parts = <<>> THEN <<>>
    ELSE IF Len(parts) = 1 THEN parts[1]
    ELSE parts[1] \o <<" ">> \o JoinSpace(Tail(parts))

\* str::parse::<u64>: digits only (an optional leading "+"), at least one
IsU64Text(s) ==
    LET d == IF s # <<>> /\ Head(s) = "+" THEN Tail(s) ELSE s IN
    d # <<>> /\ \A i \in 1..Len(d) : IsIn(d[i], DigitChars)
RECURSIVE DigitsValue(_)
DigitsValue(d) ==
    IF d = <<>> THEN 0
    ELSE DigitsValue(SubSeq(d, 1, Len(d) - 1)) * 10 + (IndexIn(d[Len(d)], DigitChars) - 1)
ParseU64(s) == DigitsValue(IF Head(s) = "+" THEN Tail(s) ELSE s)

(***************************************************************************)
(* protocols::Protocol                                                     *)
(***************************************************************************)
Http == "Http"
FlashKV == "FlashKV"

ProtocolOk(p) == [ok |-> TRUE, protocol |-> p]
ProtocolErr == [ok |-> FALSE, protocol |-> "Unsupported"]

Protocol_from_str_exact(s) ==
    IF s = <<"h","t","t","p">> \/ s = <<"h","t","t","p","s">> THEN ProtocolOk(Http)
    ELSE IF s = <<"f","l","a","s","h","k","v">> \/ s = <<"k","v">> \/ s = <<"t","c","p">>
         THEN ProtocolOk(FlashKV)
    ELSE ProtocolErr
Protocol_from_str(s) ==
    LET l == ToLower(s) IN
    IF l = <<"h","t","t","p">> \/ l = <<"h","t","t","p","s">> THEN ProtocolOk(Http)
    ELSE IF l = <<"f","l","a","s","h","k","v">> \/ l = <<"k","v">> \/ l = <<"t","c","p">>
         THEN ProtocolOk(FlashKV)
    ELSE ProtocolErr

\* Result::unwrap_or
Protocol_unwrap_or(r, default) == IF r.ok THEN r.protocol ELSE default

(***************************************************************************)
(* protocols::flashkv::FlashKVCommand                                      *)
(***************************************************************************)
Command(name, key, value, seconds, pattern, command) ==
    [name |-> name, key |-> key, value |-> value, seconds |-> seconds,
     pattern |-> pattern, command |-> command]
Ping == Command("PING", <<>>, <<>>, 0, <<>>, <<>>)
Get(key) == Command("GET", key, <<>>, 0, <<>>, <<>>)
Set(key, value) == Command("SET", key, value, 0, <<>>, <<>>)
Del(key) == Command("DEL", key, <<>>, 0, <<>>, <<>>)
Incr(key) == Command("INCR", key, <<>>, 0, <<>>, <<>>)
Decr(key) == Command("DECR", key, <<>>, 0, <<>>, <<>>)
LPush(key, value) == Command("LPUSH", key, value, 0, <<>>, <<>>)
LPop(key) == Command("LPOP", key, <<>>, 0, <<>>, <<>>)
Exists(key) == Command("EXISTS", key, <<>>, 0, <<>>, <<>>)
Expire(key, seconds) == Command("EXPIRE", key, <<>>, seconds, <<>>, <<>>)
Ttl(key) == Command("TTL", key, <<>>, 0, <<>>, <<>>)
Keys(pattern) == Command("KEYS", <<>>, <<>>, 0, pattern, <<>>)
FlushDb == Command("FLUSHDB", <<>>, <<>>, 0, <<>>, <<>>)
Raw(command) == Command("RAW", <<>>, <<>>, 0, <<>>, command)

CommandOk(c) == [ok |-> TRUE, cmd |-> c, err |-> ""]
CommandErr(e) == [ok |-> FALSE, cmd |-> Command("NONE", <<>>, <<>>, 0, <<>>, <<>>), err |-> e]

\* mutant: the key is upper-cased with the verb
KeyCommand_upper_key(parts, name, e) ==
    IF Len(parts) < 2 THEN CommandErr(e)
    ELSE CommandOk(Command(name, ToUpper(parts[2]), <<>>, 0, <<>>, <<>>))
\* one-key verbs: `if parts.len() < 2 { Err } else { Ok(V { key: parts[1] }) }`
KeyCommand(parts, name, e) ==
    IF Len(parts) < 2 THEN CommandErr(e)
    ELSE CommandOk(Command(name, parts[2], <<>>, 0, <<>>, <<>>))
\* mutant: a missing value is taken as the empty text
KeyValueCommand_empty_value(parts, name, e) ==
    IF Len(parts) < 2 THEN CommandErr(e)
    ELSE CommandOk(Command(name, parts[2], JoinSpace(SubSeq(parts, 3, Len(parts))), 0, <<>>, <<>>))
\* key-and-value verbs:
\* `if parts.len() < 3 { Err } else { Ok(V { key: parts[1], value: parts[2..].join(" ") }) }`
KeyValueCommand(parts, name, e) ==
    IF Len(parts) < 3 THEN CommandErr(e)
    ELSE CommandOk(Command(name, parts[2], JoinSpace(SubSeq(parts, 3, Len(parts))), 0, <<>>, <<>>))

FlashKVCommand_from_str(s) ==
    LET parts == SplitWhitespace(Trim(s)) IN
    IF parts = <<>> THEN CommandErr("Empty command")
    ELSE LET verb == ToUpper(parts[1]) IN
    CASE verb = <<"P","I","N","G">> -> CommandOk(Ping)
      [] verb = <<"G","E","T">> -> KeyCommand(parts, "GET", "GET requires a key")
      [] verb = <<"S","E","T">> -> KeyValueCommand(parts, "SET", "SET requires a key and value")
      [] verb = <<"D","E","L">> \/ verb = <<"D","E","L","E","T","E">> ->
            KeyCommand(parts, "DEL", "DEL requires a key")
      [] verb = <<"I","N","C","R">> -> KeyCommand(parts, "INCR", "INCR requires a key")
      [] verb = <<"D","E","C","R">> -> KeyCommand(parts, "DECR", "DECR requires a key")
      [] verb = <<"L","P","U","S","H">> ->
            KeyValueCommand(parts, "LPUSH", "LPUSH requires a key and value")
      [] verb = <<"L","P","O","P">> -> KeyCommand(parts, "LPOP", "LPOP requires a key")
      [] verb = <<"E","X","I","S","T","S">> -> KeyCommand(parts, "EXISTS", "EXISTS requires a key")
      [] verb = <<"E","X","P","I","R","E">> ->
            IF Len(parts) < 3 THEN CommandErr("EXPIRE requires a key and seconds")
            ELSE IF ~IsU64Text(parts[3]) THEN CommandErr("Invalid seconds value")
            ELSE CommandOk(Expire(parts[2], ParseU64(parts[3])))
      [] verb = <<"T","T","L">> -> KeyCommand(parts, "TTL", "TTL requires a key")
      [] verb = <<"K","E","Y","S">> ->
            CommandOk(Keys(IF Len(parts) < 2 THEN <<"*">> ELSE parts[2]))
      [] verb = <<"F","L","U","S","H","D","B">> -> CommandOk(FlushDb)
      [] OTHER -> CommandOk(Raw(s))

\* Result::unwrap_or
Command_unwrap_or(r, default) == IF r.ok THEN r.cmd ELSE default

\* Display of a u64 (`{}` in format!): its decimal digits
RECURSIVE U64ToText(_)
U64ToText(n) ==
    IF n < 10 THEN <<DigitChars[n + 1]>>
    ELSE U64ToText(n \div 10) \o <<DigitChars[(n % 10) + 1]>>

CRLF == <<"\r", "\n">>
\* the verb each variant is written with
WireVerb(name) ==
    CASE name = "PING" -> <<"P","I","N","G">>
      [] name = "GET" -> <<"G","E","T">>
      [] name = "SET" -> <<"S","E","T">>
      [] name = "DEL" -> <<"D","E","L">>
      [] name = "INCR" -> <<"I","N","C","R">>
      [] name = "DECR" -> <<"D","E","C","R">>
      [] name = "LPUSH" -> <<"L","P","U","S","H">>
      [] name = "LPOP" -> <<"L","P","O","P">>
      [] name = "EXISTS" -> <<"E","X","I","S","T","S">>
      [] name = "EXPIRE" -> <<"E","X","P","I","R","E">>
      [] name = "TTL" -> <<"T","T","L">>
      [] name = "KEYS" -> <<"K","E","Y","S">>
      [] name = "FLUSHDB" -> <<"F","L","U","S","H","D","B">>

\* the Raw arm of to_wire_format
raw_wire_format(command) ==
    IF EndsWith(command, CRLF) THEN command
    ELSE IF EndsWith(command, <<"\n">>) THEN TrimEnd(command) \o CRLF
    ELSE command \o CRLF

\* mutant: the arguments of SET and LPUSH are written value first
to_wire_format_value_first(c) ==
    CASE c.name \in {"PING", "FLUSHDB"} -> WireVerb(c.name) \o CRLF
      [] c.name \in {"GET", "DEL", "INCR", "DECR", "LPOP", "EXISTS", "TTL"} ->
            WireVerb(c.name) \o <<" ">> \o c.key \o CRLF
      [] c.name \in {"SET", "LPUSH"} ->
            WireVerb(c.name) \o <<" ">> \o c.value \o <<" ">> \o c.key \o CRLF
      [] c.name = "EXPIRE" ->
            WireVerb(c.name) \o <<" ">> \o c.key \o <<" ">> \o U64ToText(c.seconds) \o CRLF
      [] c.name = "KEYS" -> WireVerb(c.name) \o <<" ">> \o c.pattern \o CRLF
      [] c.name = "RAW" -> raw_wire_format(c.command)
\* FlashKVCommand::to_wire_format: one format! per variant
to_wire_format(c) ==
    CASE c.name \in {"PING", "FLUSHDB"} -> WireVerb(c.name) \o CRLF
      [] c.name \in {"GET", "DEL", "INCR", "DECR", "LPOP", "EXISTS", "TTL"} ->
            WireVerb(c.name) \o <<" ">> \o c.key \o CRLF
      [] c.name \in {"SET", "LPUSH"} ->
            WireVerb(c.name) \o <<" ">> \o c.key \o <<" ">> \o c.value \o CRLF
      [] c.name = "EXPIRE" ->
            WireVerb(c.name) \o <<" ">> \o c.key \o <<" ">> \o U64ToText(c.seconds) \o CRLF
      [] c.name = "KEYS" -> WireVerb(c.name) \o <<" ">> \o c.pattern \o CRLF
      [] c.name = "RAW" -> raw_wire_format(c.command)

KeyedNames == {"GET", "SET", "DEL", "INCR", "DECR", "LPUSH", "LPOP", "EXISTS", "EXPIRE", "TTL"}
\* format!("{}:{}", prefix, random_suffix)
random_key(prefix, random_suffix) == prefix \o <<":">> \o U64ToText(random_suffix)
\* `rand::rng().random_range(0..range)` panics on the empty range 0..0; it is
\* evaluated before the match, for every variant
random_range_panics(range) == range = 0
\* mutant: the value of SET and LPUSH is dropped with the old key
with_random_key_fresh(c, prefix, random_suffix) ==
    IF c.name \in KeyedNames
    THEN Command(c.name, random_key(prefix, random_suffix), <<>>, c.seconds, <<>>, <<>>)
    ELSE c
\* FlashKVCommand::with_random_key, for the random_suffix that was drawn
with_random_key(c, prefix, random_suffix) ==
    IF c.name \in KeyedNames
    THEN [c EXCEPT !.key = random_key(prefix, random_suffix)]
    ELSE c

(***************************************************************************)
(* protocols::RequestResult (the outcome of one attempt).  An Option is a  *)
(* sequence of length 0 (None) or 1 (Some).                                *)
(***************************************************************************)
None == <<>>
Some(x) == <<x>>
RequestResult(duration, status, success, error) ==
    [duration |-> duration, status |-> status, success |-> success, error |-> error]

(***************************************************************************)
(* What the network can answer to one attempt, and the times measured.     *)
(***************************************************************************)
\* response statuses an HTTP server may send
HttpStatuses == {200, 500}
\* e.to_string() of a reqwest error / of an io error
TransportErrorText == <<"r","e","f","u","s","e","d">>
HttpNetResults ==
    {[kind |-> "response", status |-> st, text |-> <<>>] : st \in HttpStatuses}
    \cup {[kind |-> "failure", status |-> 0, text |-> TransportErrorText]}
\* lines a FlashKV server may send
ResponseLines == { <<"+","O","K","\r","\n">>,
                   <<"(","n","i","l",")","\r","\n">>,
                   <<"-","E","R","R","\r","\n">> }
\* timeout(.., execute_command(..)).await: Ok(Ok(line)), Ok(Err(e)), Err(Elapsed)
KvNetResults ==
    {[kind |-> "response", line |-> l] : l \in ResponseLines}
    \cup {[kind |-> "io_error", line |-> TransportErrorText, step |-> "connect"],
          [kind |-> "elapsed", line |-> <<>>]}
\* start.elapsed().as_millis()
Durations == {10, 20}
\* overall_start.elapsed().as_millis()
TotalDurations == {0, 1000}

(***************************************************************************)
(* protocols::http::fire_single_request                                    *)
(***************************************************************************)
\* mutant: a redirection counts as a success
is_success_below_400(status) == 200 <= status /\ status <= 399
\* http::StatusCode::is_success
is_success(status) == 200 <= status /\ status <= 299

Http_fire_single_request(net, duration) ==
    IF net.kind = "response"
    THEN RequestResult(duration, net.status, is_success(net.status), None)
    ELSE RequestResult(duration, 0, FALSE, Some(net.text))

(***************************************************************************)
(* protocols::flashkv: execute_command and fire_single_request             *)
(***************************************************************************)
\* mutant: the prefixes are compared as they are, without to_uppercase
execute_command_case_sensitive(line) ==
    LET response == Trim(line) IN
    [response |-> response,
     is_error |-> \/ StartsWith(response, <<"-","E","R","R">>)
                  \/ StartsWith(response, <<"E","R","R","O","R">>)
                  \/ StartsWith(response, <<"-">>)
                  \/ StartsWith(response, <<"E","R","R">>)]
\* the (response, is_error) pair of execute_command for the line read
execute_command(line) ==
    LET response == Trim(line) IN
    [response |-> response,
     is_error |-> \/ StartsWith(response, <<"-","E","R","R">>)
                  \/ StartsWith(response, <<"E","R","R","O","R">>)
                  \/ StartsWith(response, <<"-">>)
                  \/ StartsWith(ToUpper(response), <<"E","R","R">>)]

TimedOutText == <<"R","e","q","u","e","s","t"," ","t","i","m","e","d"," ","o","u","t">>

\* the awaits of execute_command, in order
ExchangeSteps == <<"connect", "write_all", "flush", "read_line">>
\* the message each await attaches to its io error with `.context(..)?`
ContextText(step) ==
    CASE step = "connect" ->
            <<"F","a","i","l","e","d"," ","t","o"," ","c","o","n","n","e",
              "c","t"," ","t","o"," ","F","l","a","s","h","K","V"," ","s",
              "e","r","v","e","r">>
      [] step = "write_all" ->
            <<"F","a","i","l","e","d"," ","t","o"," ","s","e","n","d"," ",
              "c","o","m","m","a","n","d">>
      [] step = "flush" ->
            <<"F","a","i","l","e","d"," ","t","o"," ","f","l","u","s","h">>
      [] step = "read_line" ->
            <<"F","a","i","l","e","d"," ","t","o"," ","r","e","a","d"," ",
              "r","e","s","p","o","n","s","e">>
\* anyhow::Context::context: the io error `source` wrapped in a message
Context(source, context) == [context |-> context, source |-> source]
\* anyhow::Error::to_string(): Display with `{}` writes the outermost message
\* only (the chain of causes is written by `{:#}`)
to_string(e) == e.context

\* mutant: the not-found words are looked for in the response as it is
is_not_found_case_sensitive(response) ==
    \/ Contains(response, <<"N","I","L">>)
    \/ Contains(response, <<"N","O","T"," ","F","O","U","N","D">>)
    \/ Contains(response, <<"(","n","i","l",")">>)
\* the test for a key that was not found
is_not_found(response) ==
    \/ Contains(ToUpper(response), <<"N","I","L">>)
    \/ Contains(ToUpper(response), <<"N","O","T"," ","F","O","U","N","D">>)
    \/ Contains(ToUpper(response), <<"(","n","i","l",")">>)

\* mutant: the response text is always reported as the error
error_field_always(is_error, response) == Some(response)
\* `error: if is_error { Some(response) } else { None }`
error_field(is_error, response) == IF is_error THEN Some(response) ELSE None

FlashKV_fire_single_request(net, duration) ==
    CASE net.kind = "response" ->
            LET r == execute_command(net.line) IN
            IF r.is_error
            THEN RequestResult(duration, STATUS_ERROR, FALSE, error_field(TRUE, r.response))
            ELSE IF is_not_found(r.response)
            THEN RequestResult(duration, STATUS_NOT_FOUND, TRUE, error_field(FALSE, r.response))
            ELSE RequestResult(duration, STATUS_OK, TRUE, error_field(FALSE, r.response))
      [] net.kind = "io_error" ->
            RequestResult(duration, STATUS_CONNECTION_ERROR, FALSE,
                          Some(to_string(Context(net.line, ContextText(net.step)))))
      [] OTHER -> RequestResult(duration, STATUS_TIMEOUT, FALSE, Some(TimedOutText))

\* fire_single_request panics before any network exchange when the command
\* list is empty (`command_index % 0`) or when random keys are enabled with
\* key range 0 (`random_range(0..0)` in with_random_key)
FlashKV_driver_panics(kv) ==
    \/ Len(kv.commands) = 0
    \/ kv.use_random_keys /\ kv.key_range = 0

(***************************************************************************)
(* f64 arithmetic (IEEE 754 binary64, round to nearest, ties to even), on  *)
(* the values the statistics code computes: finite and non-negative.  A    *)
(* value is m * 2^e; the significand m is a natural number written in      *)
(* digits of DigitBits bits, lowest digit first, without high zero digits: *)
(* <<>> is 0.  A canonical value has an odd significand (or is 0.0).       *)
(***************************************************************************)
\* f64::MANTISSA_DIGITS
MANTISSA_DIGITS == 53
\* width of one digit of a significand: the product of two digits fits an integer
DigitBits == 15
DigitBase == 2^DigitBits

RECURSIVE BigOfNat(_)
BigOfNat(n) == IF n = 0 THEN <<>> ELSE <<n % DigitBase>> \o BigOfNat(n \div DigitBase)
\* for values below 2^31
RECURSIVE NatOfBig(_)
NatOfBig(d) == IF d = <<>> THEN 0 ELSE Head(d) + DigitBase * NatOfBig(Tail(d))
BigDigit(d, i) == IF i >= 1 /\ i <= Len(d) THEN d[i] ELSE 0
\* without high zero digits
BigNorm(d) ==
    LET used == {i \in 1..Len(d) : d[i] # 0}
    IN IF used = {} THEN <<>>
       ELSE SubSeq(d, 1, CHOOSE i \in used : \A j \in used : j <= i)
\* number of bits of a digit
DigitLen(x) == Cardinality({k \in 0..(DigitBits - 1) : 2^k <= x})
BigBitLen(d) == IF d = <<>> THEN 0 ELSE DigitBits * (Len(d) - 1) + DigitLen(d[Len(d)])
\* bit i of d, bit 0 the lowest
BigBit(d, i) == (BigDigit(d, (i \div DigitBits) + 1) \div 2^(i % DigitBits)) % 2
\* d \div 2^k
BigShiftRight(d, k) ==
    LET q == k \div DigitBits
        r == k % DigitBits
    IN BigNorm([j \in 1..Len(d) |->
                  (BigDigit(d, j + q) \div 2^r)
                  + (BigDigit(d, j + q + 1) % 2^r) * 2^(DigitBits - r)])
\* d * 2^k
BigShiftLeft(d, k) ==
    LET q == k \div DigitBits
        r == k % DigitBits
    IN BigNorm([j \in 1..(Len(d) + q + 1) |->
                  (BigDigit(d, j - q) % 2^(DigitBits - r)) * 2^r
                  + (BigDigit(d, j - q - 1) \div 2^(DigitBits - r))])
\* number of low zero bits of d # 0
BigLowZeros(d) ==
    LET first == CHOOSE i \in 1..Len(d) : d[i] # 0 /\ \A j \in 1..(i - 1) : d[j] = 0
    IN DigitBits * (first - 1)
       + Cardinality({k \in 1..DigitBits : d[first] % 2^k = 0})
RECURSIVE BigAddCarry(_, _, _)
BigAddCarry(a, b, carry) ==
    IF a = <<>> /\ b = <<>> THEN (IF carry = 0 THEN <<>> ELSE <<carry>>)
    ELSE LET s == BigDigit(a, 1) + BigDigit(b, 1) + carry
         IN <<s % DigitBase>> \o BigAddCarry(IF a = <<>> THEN a ELSE Tail(a),
                                             IF b = <<>> THEN b ELSE Tail(b),
                                             s \div DigitBase)
BigAdd(a, b) == BigAddCarry(a, b, 0)
\* a - b for a >= b
RECURSIVE BigSubBorrow(_, _, _)
BigSubBorrow(a, b, borrow) ==
    IF a = <<>> THEN <<>>
    ELSE LET s == Head(a) - BigDigit(b, 1) - borrow
         IN <<s % DigitBase>> \o BigSubBorrow(Tail(a), IF b = <<>> THEN b ELSE Tail(b),
                                              IF s < 0 THEN 1 ELSE 0)
BigSub(a, b) == BigNorm(BigSubBorrow(a, b, 0))
\* a <= b
BigLeq(a, b) ==
    IF Len(a) # Len(b) THEN Len(a) < Len(b)
    ELSE \/ a = b
         \/ \E i \in 1..Len(a) : a[i] < b[i] /\ \A j \in (i + 1)..Len(a) : a[j] = b[j]
\* a * x for one digit x
RECURSIVE BigMulDigit(_, _, _)
BigMulDigit(a, x, carry) ==
    IF a = <<>> THEN (IF carry = 0 THEN <<>> ELSE <<carry>>)
    ELSE LET s == Head(a) * x + carry
         IN <<s % DigitBase>> \o BigMulDigit(Tail(a), x, s \div DigitBase)
RECURSIVE BigMul(_, _)
BigMul(a, b) ==
    IF a = <<>> \/ b = <<>> THEN <<>>
    ELSE BigNorm(BigAdd(BigMulDigit(a, Head(b), 0), <<0>> \o BigMul(a, Tail(b))))
\* a \div den and a % den for one digit den, from the highest digit of a down
RECURSIVE BigDivDigit(_, _)
BigDivDigit(a, den) ==
    IF a = <<>> THEN [q |-> <<>>, r |-> 0]
    ELSE LET high == BigDivDigit(Tail(a), den)
             s == high.r * DigitBase + Head(a)
         IN [q |-> <<s \div den>> \o high.q, r |-> s % den]

F64(m, e) == [m |-> m, e |-> e]
F64Zero == F64(<<>>, 0)
\* the value m * 2^e with an odd significand
F64Canonical(m, e) ==
    IF m = <<>> THEN F64Zero
    ELSE LET z == BigLowZeros(m) IN F64(BigShiftRight(m, z), e + z)
\* the nearest f64 of the exact value m * 2^e: the bits below the 53 highest
\* are rounded off, a tie goes to the even significand
F64Round(m, e) ==
    LET k == BigBitLen(m) - MANTISSA_DIGITS
    IN IF k <= 0 THEN F64Canonical(m, e)
       ELSE LET kept == BigShiftRight(m, k)
                guard == BigBit(m, k - 1)
                sticky == \E i \in 0..(k - 2) : BigBit(m, i) = 1
                up == guard = 1 /\ (sticky \/ BigBit(kept, 0) = 1)
            IN F64Canonical(IF up THEN BigAdd(kept, <<1>>) ELSE kept, e + k)
\* `n as f64`
F64FromNat(n) == F64Round(BigOfNat(n), 0)
\* the significands of a and b over the common exponent min(a.e, b.e)
F64Aligned(a, b) ==
    LET e == IF a.e <= b.e THEN a.e ELSE b.e
    IN [a |-> BigShiftLeft(a.m, a.e - e), b |-> BigShiftLeft(b.m, b.e - e), e |-> e]
F64Leq(a, b) == LET al == F64Aligned(a, b) IN BigLeq(al.a, al.b)
F64Add(a, b) == LET al == F64Aligned(a, b) IN F64Round(BigAdd(al.a, al.b), al.e)
\* a - b for a >= b
F64Sub(a, b) == LET al == F64Aligned(a, b) IN F64Round(BigSub(al.a, al.b), al.e)
F64Mul(a, b) == F64Round(BigMul(a.m, b.m), a.e + b.e)
\* a / b for b # 0 whose significand is one digit (the code divides by
\* integer conversions only): the quotient is computed to more than 53 bits,
\* and a remainder counts as one more bit below them
F64Div(a, b) ==
    IF a.m = <<>> THEN F64Zero
    ELSE LET shift == DigitBits * 5
             d == BigDivDigit(BigShiftLeft(a.m, shift), NatOfBig(b.m))
             q == BigNorm(d.q)
         IN IF d.r = 0 THEN F64Round(q, a.e - b.e - shift)
            ELSE F64Round(BigAdd(BigShiftLeft(q, 1), <<1>>), a.e - b.e - shift - 1)
\* f64::floor, then `as usize` / `as u128` (the value is below 2^31 here)
F64Floor(a) ==
    IF a.e >= 0 THEN NatOfBig(BigShiftLeft(a.m, a.e))
    ELSE NatOfBig(BigShiftRight(a.m, -a.e))
\* f64::ceil, then `as usize`
F64Ceil(a) == IF a.e >= 0 THEN F64Floor(a) ELSE F64Floor(a) + 1

(***************************************************************************)
(* protocols::calculate_stats and percentile.                              *)
(***************************************************************************)
RECURSIVE Insert(_, _)
Insert(x, sorted) ==
    IF sorted = <<>> THEN <<x>>
    ELSE IF x <= Head(sorted) THEN <<x>> \o sorted
    ELSE <<Head(sorted)>> \o Insert(x, Tail(sorted))
RECURSIVE SortAsc(_)
SortAsc(xs) == IF xs = <<>> THEN <<>> ELSE Insert(Head(xs), SortAsc(Tail(xs)))
RECURSIVE Sum(_)
Sum(xs) == IF xs = <<>> THEN 0 ELSE Head(xs) + Sum(Tail(xs))
Min2(a, b) == IF a <= b THEN a ELSE b

\* mutant: the interpolation starts from the upper value
percentile_from_upper(sorted_data, pct) ==
    IF sorted_data = <<>> THEN 0
    ELSE LET len == Len(sorted_data)
             rank == F64Mul(F64Div(pct, F64FromNat(100)), F64FromNat(len - 1))
             lower == F64Floor(rank)
             upper == F64Ceil(rank)
         IN IF lower = upper \/ upper >= len
            THEN sorted_data[Min2(lower, len - 1) + 1]
            ELSE LET weight == F64Sub(rank, F64FromNat(lower))
                     lower_val == F64FromNat(sorted_data[lower + 1])
                     upper_val == F64FromNat(sorted_data[upper + 1])
                 IN F64Floor(F64Add(upper_val, F64Mul(weight, F64Sub(upper_val, lower_val))))
\* sorted_data is indexed from 0 in the code, from 1 here; pct is an f64
percentile(sorted_data, pct) ==
    IF sorted_data = <<>> THEN 0
    ELSE LET len == Len(sorted_data)
             rank == F64Mul(F64Div(pct, F64FromNat(100)), F64FromNat(len - 1))
             lower == F64Floor(rank)
             upper == F64Ceil(rank)
         IN IF lower = upper \/ upper >= len
            THEN sorted_data[Min2(lower, len - 1) + 1]
            ELSE LET weight == F64Sub(rank, F64FromNat(lower))
                     lower_val == F64FromNat(sorted_data[lower + 1])
                     upper_val == F64FromNat(sorted_data[upper + 1])
                 IN F64Floor(F64Add(lower_val, F64Mul(weight, F64Sub(upper_val, lower_val))))

\* mutant: an outcome without an error text counts as successful
successful_count_by_error(results) == Len(SelectSeq(results, LAMBDA r : r.error = None))
\* results.iter().filter(|r| r.success).count()
successful_count(results) == Len(SelectSeq(results, LAMBDA r : r.success))

\* mutant: the durations of failed results are kept
all_latencies(results) == SortAsc([i \in 1..Len(results) |-> results[i].duration])
\* mutant: the latencies are not sorted
unsorted_latencies(results) ==
    LET successful == SelectSeq(results, LAMBDA r : r.success)
    IN [i \in 1..Len(successful) |-> successful[i].duration]
\* the durations of the successful results, sorted
successful_latencies(results) ==
    LET successful == SelectSeq(results, LAMBDA r : r.success)
    IN SortAsc([i \in 1..Len(successful) |-> successful[i].duration])

\* the pct of the calls percentile(&latencies, 50.0), (.., 95.0), (.., 99.0)
PercentileOf(field) == CASE field = "p50" -> 50 [] field = "p95" -> 95 [] field = "p99" -> 99

\* mutant: min_latency is folded from the largest integer, which stays when
\* there is no latency
latency_fields_min_folded(latencies) ==
    [min_latency |-> IF latencies = <<>> THEN 2^30 ELSE latencies[1],
     max_latency |-> IF latencies = <<>> THEN 0 ELSE latencies[Len(latencies)],
     avg_latency |-> IF latencies = <<>> THEN F64Zero
                     ELSE F64Div(F64FromNat(Sum(latencies)), F64FromNat(Len(latencies)))]
    @@ [field \in {"p50", "p95", "p99"} |->
            percentile(latencies, F64FromNat(PercentileOf(field)))]
\* (min_latency, max_latency, avg_latency, p50, p95, p99)
latency_fields(latencies) ==
    IF latencies = <<>>
    THEN [min_latency |-> 0, max_latency |-> 0, avg_latency |-> F64Zero,
          p50 |-> 0, p95 |-> 0, p99 |-> 0]
    ELSE [min_latency |-> latencies[1],
          max_latency |-> latencies[Len(latencies)],
          avg_latency |-> F64Div(F64FromNat(Sum(latencies)), F64FromNat(Len(latencies)))]
         @@ [field \in {"p50", "p95", "p99"} |->
                percentile(latencies, F64FromNat(PercentileOf(field)))]

\* mutant: the rate is left per millisecond
requests_per_millisecond(total_requests, total_duration) ==
    IF total_duration > 0
    THEN F64Div(F64FromNat(total_requests), F64FromNat(total_duration))
    ELSE F64Zero
requests_per_second(total_requests, total_duration) ==
    IF total_duration > 0
    THEN F64Mul(F64Div(F64FromNat(total_requests), F64FromNat(total_duration)),
                F64FromNat(1000))
    ELSE F64Zero

calculate_stats(results, total_duration) ==
    [total_requests |-> Len(results),
     successful_requests |-> successful_count(results),
     failed_requests |-> Len(results) - successful_count(results),
     total_duration |-> total_duration,
     requests_per_second |-> requests_per_second(Len(results), total_duration)]
    @@ latency_fields(successful_latencies(results))

(***************************************************************************)
(* Configuration: clap's Args, protocols::LoadTestConfig, FlashKVConfig.   *)
(***************************************************************************)
Args(mode, protocol, requests, concurrency, command) ==
    [mode |-> mode, protocol |-> protocol, requests |-> requests,
     concurrency |-> concurrency, command |-> command]
\* run_load_test called as a library function, without main()
NoArgs == Args("library", <<>>, None, None, None)

FlashKVConfig(commands, use_random_keys, key_range) ==
    [commands |-> commands, use_random_keys |-> use_random_keys, key_range |-> key_range]
\* FlashKVConfig::new(host, port).with_commands(commands)
FlashKVConfig_new_with_commands(commands) == FlashKVConfig(commands, FALSE, DefaultKeyRange)

LoadTestConfig(protocol, num_requests, concurrency, timeout_secs, http_config, flashkv_config) ==
    [protocol |-> protocol, num_requests |-> num_requests, concurrency |-> concurrency,
     timeout_secs |-> timeout_secs, http_config |-> http_config,
     flashkv_config |-> flashkv_config]
\* HttpConfig::new(url): the URL, method, headers and body do not steer the engine
HttpConfig_new == [method |-> "GET"]
NoConfig == LoadTestConfig("None", 0, 0, 0, None, None)

\* Option::unwrap_or
unwrap_or(opt, default) == IF opt = None THEN default ELSE opt[1]

\* main(), quick mode: the LoadTestConfig built from the command line
QuickConfig(a) ==
    LET requests == unwrap_or(a.requests, DefaultRequests)
        concurrency == unwrap_or(a.concurrency, DefaultConcurrency)
        protocol == Protocol_unwrap_or(Protocol_from_str(a.protocol), Http)
    IN IF protocol = Http
       THEN LoadTestConfig(Http, requests, concurrency, DefaultTimeoutSecs,
                           Some(HttpConfig_new), None)
       ELSE LET commands ==
                    IF a.command # None
                    THEN <<Command_unwrap_or(FlashKVCommand_from_str(a.command[1]), Ping)>>
                    ELSE <<Ping>>
            IN LoadTestConfig(FlashKV, requests, concurrency, DefaultTimeoutSecs,
                              None, Some(FlashKVConfig_new_with_commands(commands)))

\* dialoguer's validate_with closure of the request-count and concurrency prompts
ValidatePositive(input) == input > 0

\* the loop of the "Custom commands" workload: each typed line is parsed, a
\* line that fails to parse is reported and skipped; with no command left the
\* list defaults to PING
RECURSIVE ParsedLines(_)
ParsedLines(lines) ==
    IF lines = <<>> THEN <<>>
    ELSE LET r == FlashKVCommand_from_str(Head(lines)) IN
         (IF r.ok THEN <<r.cmd>> ELSE <<>>) \o ParsedLines(Tail(lines))
CustomCommands(lines) ==
    LET commands == ParsedLines(lines) IN
    IF commands = <<>> THEN <<Ping>> ELSE commands

(***************************************************************************)
(* Inputs that the model draws.                                            *)
(***************************************************************************)
KeyK == <<"k">>
ValV == <<"v">>
\* --protocol values
ProtocolNames == { <<"h","t","t","p">>, <<"K","V">>, <<"f","t","p">> }
\* --command values and lines typed at the "Command" prompt
CommandTexts == { <<"G","E","T">>, <<"g","e","t"," ","k">>, <<"S","E","T"," ","k">> }
\* request counts and concurrencies given on the command line or typed
ArgRequests == 0..(MaxRequests - 1)
ArgConcurrencies == 0..MaxConcurrency
\* the sequences of at most MaxCustomLines typed lines
RECURSIVE LinesUpTo(_)
LinesUpTo(k) ==
    IF k = 0 THEN {<<>>}
    ELSE LinesUpTo(k - 1)
         \cup {Append(ls, t) : ls \in {l \in LinesUpTo(k - 1) : Len(l) = k - 1}, t \in CommandTexts}
\* the workloads of the interactive "Select workload type" menu
Workloads(lines) ==
    << <<Ping>>, <<Get(KeyK)>>, <<Set(KeyK, ValV)>>, <<Set(KeyK, ValV), Get(KeyK)>>,
       <<Incr(KeyK)>>, CustomCommands(lines) >>

\* command lists handed to flashkv::run_load_test by a library caller
LibraryCommandLists == { <<>>, <<Set(KeyK, ValV), Get(KeyK)>> }
LibraryFlashKVConfigs ==
    {FlashKVConfig(cs, FALSE, DefaultKeyRange) : cs \in LibraryCommandLists}
    \cup {FlashKVConfig(cs, TRUE, r) : cs \in LibraryCommandLists, r \in 0..MaxKeyRange}
LibraryConfigs ==
    {LoadTestConfig(Http, n, c, DefaultTimeoutSecs, Some(HttpConfig_new), None) :
        n \in 0..MaxRequests, c \in 0..MaxConcurrency}
    \cup {LoadTestConfig(FlashKV, n, c, DefaultTimeoutSecs, None, Some(kv)) :
            n \in 0..MaxRequests, c \in 0..MaxConcurrency, kv \in LibraryFlashKVConfigs}

(***************************************************************************)
(* State.                                                                  *)
(***************************************************************************)
VARIABLES
    pc,          \* where main() / run_load_test stands
    args,        \* the parsed command line
    config,      \* the LoadTestConfig
    permits,     \* permits available in the semaphore
    unit,        \* per spawned task: where it stands
    holding,     \* per task: whether its `_permit` guard is alive
    attempts,    \* per task: driver invocations started
    output,      \* per task: the value its JoinHandle yields (Option)
    spawned,     \* handles pushed by the spawn loop
    collected,   \* handles awaited by the collection loop
    results,     \* the results vector
    run_result,  \* what run_load_test returned
    base_command, \* per task: the command of the list its driver took (Option)
    call,        \* a function called on its own: its name and arguments
    ret,         \* the value that call returned (Option)
    exchange,    \* the network exchange of a called driver, and its clock
    now,         \* the monotonic clock of a timed run, in milliseconds
    overall_start, \* the Instant `overall_start` of run_load_test
    start,       \* per task: the Instant `start` of fire_single_request
    awaiting,    \* per task: the await of the exchange it stands at (0: none)
    stream       \* per task: its TcpStream: "none", "open" or "closed"

vars == <<pc, args, config, permits, unit, holding, attempts, output,
          spawned, collected, results, run_result, base_command, call, ret, exchange,
          now, overall_start, start, awaiting, stream>>

Units == 0..(MaxRequests - 1)

NoStats == calculate_stats(<<>>, 0)
NotReturned == [kind |-> "None", stats |-> NoStats, err |-> ""]
\* Ok(stats)
RunOk(stats) == [kind |-> "Ok", stats |-> stats, err |-> ""]
\* Err(e)
RunErr(e) == [kind |-> "Err", stats |-> NoStats, err |-> e]

EngineIdle ==
    /\ permits = 0
    /\ unit = [i \in Units |-> "unspawned"]
    /\ holding = [i \in Units |-> FALSE]
    /\ attempts = [i \in Units |-> 0]
    /\ output = [i \in Units |-> None]
    /\ spawned = 0
    /\ collected = 0
    /\ results = <<>>
    /\ run_result = NotReturned
    /\ base_command = [i \in Units |-> None]
    /\ now = 0
    /\ overall_start = 0
    /\ start = [i \in Units |-> 0]
    /\ awaiting = [i \in Units |-> 0]
    /\ stream = [i \in Units |-> "none"]

\* the clock, the instants read from it and the exchange of each task: they
\* change in a timed run only
clock_vars == <<now, overall_start, start, awaiting, stream>>
engine_vars == <<permits, unit, holding, attempts, output, spawned, collected,
                 results, run_result, base_command, clock_vars>>

\* no function is called on its own while the program runs
NoCall == [fn |-> "none"]
\* no exchange is followed step by step
NoExchange == [at |-> 0, now |-> 0, result |-> "none", answer |-> <<>>]
function_vars == <<call, ret, exchange>>
FunctionsIdle == call = NoCall /\ ret = None /\ exchange = NoExchange

\* the program started from the command line
Init ==
    /\ pc = "main"
    /\ args \in {Args("quick", p, Some(n), c, cmd) :
                    p \in ProtocolNames, n \in ArgRequests,
                    c \in {None} \cup {Some(x) : x \in ArgConcurrencies},
                    cmd \in {None} \cup {Some(t) : t \in CommandTexts}}
                \cup {Args("interactive", p, None, None, None) : p \in ProtocolNames}
    /\ config = NoConfig
    /\ EngineIdle
    /\ FunctionsIdle

\* run_load_test called with a configuration of the caller's
EngineInit ==
    /\ pc = "call"
    /\ args = NoArgs
    /\ config \in LibraryConfigs
    /\ EngineIdle
    /\ FunctionsIdle

(***************************************************************************)
(* main(): configuration and confirmation.                                 *)
(***************************************************************************)
\* quick mode (main.rs 265-317)
BuildQuickConfig ==
    /\ pc = "main"
    /\ args.mode = "quick"
    /\ config' = QuickConfig(args)
    /\ pc' = "confirm"
    /\ UNCHANGED <<args, engine_vars>>
    /\ UNCHANGED function_vars

\* interactive mode, protocol HTTP/HTTPS selected (the typed timeout does not
\* steer the engine: the default stands for it)
InteractiveHttp ==
    /\ pc = "main"
    /\ args.mode = "interactive"
    /\ \E num_requests \in {x \in ArgRequests : ValidatePositive(x)},
          concurrency \in {x \in ArgConcurrencies : ValidatePositive(x)} :
            config' = LoadTestConfig(Http, num_requests, concurrency, DefaultTimeoutSecs,
                                     Some(HttpConfig_new), None)
    /\ pc' = "confirm"
    /\ UNCHANGED <<args, engine_vars>>
    /\ UNCHANGED function_vars

\* interactive mode, protocol FlashKV selected
InteractiveFlashKV ==
    /\ pc = "main"
    /\ args.mode = "interactive"
    /\ \E command_index \in 0..5, lines \in LinesUpTo(MaxCustomLines),
          random \in BOOLEAN, key_range \in 0..MaxKeyRange,
          num_requests \in {x \in ArgRequests : ValidatePositive(x)},
          concurrency \in {x \in ArgConcurrencies : ValidatePositive(x)} :
            LET commands == Workloads(lines)[command_index + 1]
                use_random_keys == command_index # 0 /\ random
                kv == FlashKVConfig(commands, use_random_keys,
                                    IF use_random_keys THEN key_range ELSE DefaultKeyRange)
            IN /\ (command_index # 5 => lines = <<>>)
               /\ config' = LoadTestConfig(FlashKV, num_requests, concurrency,
                                           DefaultTimeoutSecs, None, Some(kv))
    /\ pc' = "confirm"
    /\ UNCHANGED <<args, engine_vars>>
    /\ UNCHANGED function_vars

\* "Start load test?": skipped with --yes, else the answer decides
Confirm ==
    /\ pc = "confirm"
    /\ \E yes \in BOOLEAN, confirmed \in BOOLEAN :
          pc' = IF yes \/ confirmed THEN "call" ELSE "cancelled"
    /\ UNCHANGED <<args, config, engine_vars>>
    /\ UNCHANGED function_vars

(***************************************************************************)
(* run_load_test (http.rs 130-193, flashkv.rs 416-478).                    *)
(***************************************************************************)
\* Semaphore::new(concurrency as usize)
Semaphore_new(concurrency) == concurrency

\* http::run_load_test up to the spawn loop: the client is built first, and
\* `?` returns the error when it cannot be built
Http_run_load_test ==
    /\ pc = "call"
    /\ config.protocol = Http
    /\ \E built \in BOOLEAN :
          IF built
          THEN /\ permits' = Semaphore_new(config.concurrency)
               /\ pc' = "running"
               /\ UNCHANGED run_result
          ELSE /\ run_result' = RunErr("Failed to build HTTP client")
               /\ pc' = "returned"
               /\ UNCHANGED permits
    /\ UNCHANGED <<args, config, unit, holding, attempts, output, spawned, collected, results>>
    /\ UNCHANGED <<base_command, clock_vars, function_vars>>

\* flashkv::run_load_test up to the spawn loop
FlashKV_run_load_test ==
    /\ pc = "call"
    /\ config.protocol = FlashKV
    /\ permits' = Semaphore_new(config.concurrency)
    /\ pc' = "running"
    /\ UNCHANGED <<args, config, unit, holding, attempts, output, spawned, collected,
                   results, run_result>>
    /\ UNCHANGED <<base_command, clock_vars, function_vars>>

\* one iteration of `for i in 0..num_requests { handles.push(tokio::spawn(..)) }`
SpawnUnit ==
    /\ pc = "running"
    /\ spawned < config.num_requests
    /\ unit' = [unit EXCEPT ![spawned] = "waiting"]
    /\ spawned' = spawned + 1
    /\ UNCHANGED <<pc, args, config, permits, holding, attempts, output, collected,
                   results, run_result>>
    /\ UNCHANGED <<base_command, clock_vars, function_vars>>

\* mutant: acquire() never waits
CanAcquireAlways(available) == TRUE
\* mutant: the last permit is never handed out
CanAcquireOffByOne(available) == available > 1
\* semaphore.acquire().await resolves when a permit is available
CanAcquire(available) == available > 0
\* mutant: the permit is forgotten instead of returned
ForgetPermit(available) == available
\* dropping the SemaphorePermit returns the permit
DropPermit(available) == available + 1

\* mutant: every request takes the first command of the list
base_command_index_first(kv, command_index) == 0
\* `command_index % config.commands.len()`: the position in the list of the
\* command of request command_index
base_command_index(kv, command_index) == command_index % Len(kv.commands)
\* `let base_command = &config.commands[..]`, the first statement of
\* fire_single_request(&config, i as usize, timeout_secs), which task i calls
\* with its dispatch index; it panics on an empty list, and an HTTP request
\* has no command
BaseCommandOf(i) ==
    IF config.protocol = FlashKV /\ Len(config.flashkv_config[1].commands) > 0
    THEN LET kv == config.flashkv_config[1]
             position == base_command_index(kv, i)
         IN Some([position |-> position, command |-> kv.commands[position + 1]])
    ELSE None

\* a task gets its permit and enters fire_single_request
Acquire(i) ==
    /\ unit[i] = "waiting"
    /\ CanAcquire(permits)
    /\ permits' = permits - 1
    /\ holding' = [holding EXCEPT ![i] = TRUE]
    /\ unit' = [unit EXCEPT ![i] = "inflight"]
    /\ attempts' = [attempts EXCEPT ![i] = @ + 1]
    /\ UNCHANGED <<pc, args, config, output, spawned, collected, results, run_result>>
    /\ base_command' = [base_command EXCEPT ![i] = BaseCommandOf(i)]
    /\ UNCHANGED <<clock_vars, function_vars>>

DriverPanics == config.protocol = FlashKV /\ FlashKV_driver_panics(config.flashkv_config[1])

\* the outcomes the drivers can return, one per network answer and duration
HttpOutcomes == {Http_fire_single_request(net, d) : net \in HttpNetResults, d \in Durations}
FlashKVOutcomes ==
    {FlashKV_fire_single_request(net, d) : net \in KvNetResults, d \in Durations}
DriverOutcomes == IF config.protocol = Http THEN HttpOutcomes ELSE FlashKVOutcomes

\* fire_single_request returns; the task yields the outcome and `_permit` is dropped
Complete(i) ==
    /\ unit[i] = "inflight"
    /\ ~DriverPanics
    /\ \E o \in DriverOutcomes : output' = [output EXCEPT ![i] = Some(o)]
    /\ unit' = [unit EXCEPT ![i] = "done"]
    /\ holding' = [holding EXCEPT ![i] = FALSE]
    /\ permits' = DropPermit(permits)
    /\ UNCHANGED <<pc, args, config, attempts, spawned, collected, results, run_result>>
    /\ UNCHANGED <<base_command, clock_vars, function_vars>>

\* fire_single_request panics; the unwinding drops `_permit`, the task ends
\* with a JoinError
Panic(i) ==
    /\ unit[i] = "inflight"
    /\ DriverPanics
    /\ unit' = [unit EXCEPT ![i] = "panicked"]
    /\ holding' = [holding EXCEPT ![i] = FALSE]
    /\ permits' = DropPermit(permits)
    /\ UNCHANGED <<pc, args, config, attempts, output, spawned, collected, results,
                   run_result>>
    /\ UNCHANGED <<base_command, clock_vars, function_vars>>

\* mutant: the collection loop does not wait for the task
HandleReadyAlways(u) == TRUE
\* handle.await resolves once the task has ended
HandleReady(u) == u \in {"done", "panicked"}
\* the Result a JoinHandle yields: Ok(outcome), or Err(JoinError) after a panic
JoinResult(u, out) == IF u = "done" /\ out # None THEN [ok |-> TRUE, value |-> out]
                      ELSE [ok |-> FALSE, value |-> None]
\* mutant: only successful outcomes are kept
CollectHandleSuccessOnly(rs, joined) ==
    IF joined.ok /\ joined.value[1].success THEN Append(rs, joined.value[1]) ELSE rs
\* mutant: a crashed task is recorded as a failed outcome
CollectHandleKeepCrashed(rs, joined) ==
    Append(rs, IF joined.ok THEN joined.value[1]
               ELSE RequestResult(0, 0, FALSE, Some(<<"p","a","n","i","c">>)))
\* `if let Ok(result) = handle.await { results.push(result); }`
CollectHandle(rs, joined) == IF joined.ok THEN Append(rs, joined.value[1]) ELSE rs

\* one iteration of `for handle in handles`
AwaitHandle ==
    /\ pc = "running"
    /\ spawned = config.num_requests
    /\ collected < spawned
    /\ HandleReady(unit[collected])
    /\ results' = CollectHandle(results, JoinResult(unit[collected], output[collected]))
    /\ collected' = collected + 1
    /\ UNCHANGED <<pc, args, config, permits, unit, holding, attempts, output, spawned,
                   run_result>>
    /\ UNCHANGED <<base_command, clock_vars, function_vars>>

\* mutant: a failed attempt fails the run
ReturnErrOnFailure(rs, total_duration) ==
    IF \E i \in 1..Len(rs) : ~rs[i].success THEN RunErr("request failed")
    ELSE RunOk(calculate_stats(rs, total_duration))
\* the value run_load_test returns after the collection loop
ReturnValue(rs, total_duration) == RunOk(calculate_stats(rs, total_duration))

Return ==
    /\ pc = "running"
    /\ spawned = config.num_requests
    /\ collected = spawned
    /\ \E total_duration \in TotalDurations :
          run_result' = ReturnValue(results, total_duration)
    /\ pc' = "returned"
    /\ UNCHANGED <<args, config, permits, unit, holding, attempts, output, spawned,
                   collected, results>>
    /\ UNCHANGED <<base_command, clock_vars, function_vars>>

\* main() after run_load_test: print_results, or the error propagated by `?`
MainExit ==
    /\ pc = "returned"
    /\ args.mode # "library"
    /\ pc' = "exit"
    /\ UNCHANGED <<args, config, engine_vars>>
    /\ UNCHANGED function_vars

\* the steps of a run before its result is computed
EngineSteps ==
    \/ Http_run_load_test
    \/ FlashKV_run_load_test
    \/ SpawnUnit
    \/ \E i \in Units : Acquire(i)
    \/ \E i \in Units : Complete(i)
    \/ \E i \in Units : Panic(i)
    \/ AwaitHandle

EngineNext ==
    \/ EngineSteps
    \/ Return

Next ==
    \/ BuildQuickConfig
    \/ InteractiveHttp
    \/ InteractiveFlashKV
    \/ Confirm
    \/ EngineNext
    \/ MainExit

\* the whole program, from main()
Spec == Init /\ [][Next]_vars

\* run_load_test alone, for every configuration a caller can hand it
EngineSpec == EngineInit /\ [][EngineNext]_vars

\* the tokio runtime polls every task that can make progress and every driver
\* invocation terminates: the run does not stop while a step is possible
\* when Return can be taken: its guard (it always changes pc)
ReturnEnabled ==
    /\ pc = "running"
    /\ spawned = config.num_requests
    /\ collected = spawned
\* WF_vars(Return), with ENABLED <<Return>>_vars written out as ReturnEnabled
ReturnFairness == []<>(~ReturnEnabled) \/ []<><<Return>>_vars
EngineFairness == WF_vars(EngineSteps) /\ ReturnFairness
\* the runs whose completion is checked under fairness
FairEngineInit == EngineInit /\ config.num_requests <= MaxFairRequests
FairEngineSpec == FairEngineInit /\ [][EngineNext]_vars /\ EngineFairness

(***************************************************************************)
(* run_load_test followed against the clock.  Instant::now() reads `now`;   *)
(* each task stands at one await of its exchange (for FlashKV the awaits of *)
(* execute_command: connect, write_all, flush, read_line; for HTTP the one  *)
(* await of send()); the timeout of a request is counted from the instant   *)
(* its timer was created, inside fire_single_request.  As in the exchange   *)
(* of a single driver, an await that is ready no later than the deadline is *)
(* taken, and the clock does not pass the deadline of a request in flight   *)
(* before that request has ended.                                           *)
(***************************************************************************)
TimedFlashKVConfigs ==
    {FlashKVConfig(<<Ping>>, FALSE, DefaultKeyRange), FlashKVConfig(<<Ping>>, TRUE, 0)}
TimedConfigs ==
    {LoadTestConfig(Http, n, c, t, Some(HttpConfig_new), None) :
        n \in 0..MaxTimedRequests, c \in 0..MaxConcurrency, t \in 1..MaxTimeoutSecs}
    \cup {LoadTestConfig(FlashKV, n, c, t, None, Some(kv)) :
            n \in 0..MaxTimedRequests, c \in 0..MaxConcurrency, t \in 1..MaxTimeoutSecs,
            kv \in TimedFlashKVConfigs}
TimedInit ==
    /\ pc = "call"
    /\ args = NoArgs
    /\ config \in TimedConfigs
    /\ EngineIdle
    /\ FunctionsIdle

\* Duration::from_secs(secs), in milliseconds
Duration_from_secs(secs) == secs * 1000
\* Instant::elapsed().as_millis() of an instant, read at the instant `at`
elapsed(instant, at) == at - instant
\* mutant: `start` is taken when the run starts, before the permit is awaited
DriverStartAtRunStart(run_start, entered) == run_start
\* `let start = Instant::now()`, the first statement of fire_single_request,
\* which the task calls after `semaphore.acquire().await`
DriverStart(run_start, entered) == entered
\* mutant: the timer of a request runs from the start of the run
TimerInstantAtRunStart(run_start, driver_start) == run_start
\* the instant the timer of a request counts from: tokio's timeout(..) is
\* created inside fire_single_request, reqwest's when the request is sent;
\* nothing is awaited between `start` and either
TimerInstant(run_start, driver_start) == driver_start
\* Duration::from_secs(timeout_secs) of the run
Timeout == Duration_from_secs(config.timeout_secs)
TimerElapsed(i) == elapsed(TimerInstant(overall_start, start[i]), now)
\* mutant: the stream outlives the request
leak(s) == s
\* the TcpStream is a local of execute_command: it is dropped, and so closed,
\* when execute_command returns or is dropped by timeout
drop(s) == IF s = "open" THEN "closed" ELSE s
\* mutant: the seconds of the run are reported
total_duration_as_secs(run_start, end) == elapsed(run_start, end) \div 1000
\* `overall_start.elapsed().as_millis()` after the collection loop
total_duration_as_millis(run_start, end) == elapsed(run_start, end)

ClockTick ==
    /\ pc = "running"
    /\ now < MaxTicks * ClockStepMs
    /\ \A i \in Units : (unit[i] = "inflight" /\ ~DriverPanics) => TimerElapsed(i) < Timeout
    /\ now' = now + ClockStepMs
    /\ UNCHANGED <<pc, args, config, permits, unit, holding, attempts, output, spawned,
                   collected, results, run_result, base_command>>
    /\ UNCHANGED <<overall_start, start, awaiting, stream, function_vars>>

\* http::run_load_test up to the spawn loop, `overall_start` included
TimedHttp_run_load_test ==
    /\ pc = "call"
    /\ config.protocol = Http
    /\ \E built \in BOOLEAN :
          IF built
          THEN /\ permits' = Semaphore_new(config.concurrency)
               /\ overall_start' = now
               /\ pc' = "running"
               /\ UNCHANGED run_result
          ELSE /\ run_result' = RunErr("Failed to build HTTP client")
               /\ pc' = "returned"
               /\ UNCHANGED <<permits, overall_start>>
    /\ UNCHANGED <<args, config, unit, holding, attempts, output, spawned, collected, results>>
    /\ UNCHANGED <<base_command, now, start, awaiting, stream, function_vars>>

\* flashkv::run_load_test up to the spawn loop, `overall_start` included
TimedFlashKV_run_load_test ==
    /\ pc = "call"
    /\ config.protocol = FlashKV
    /\ permits' = Semaphore_new(config.concurrency)
    /\ overall_start' = now
    /\ pc' = "running"
    /\ UNCHANGED <<args, config, unit, holding, attempts, output, spawned, collected,
                   results, run_result>>
    /\ UNCHANGED <<base_command, now, start, awaiting, stream, function_vars>>

\* a task gets its permit and enters fire_single_request: `start` is read,
\* and the first await of the exchange is reached unless the driver panics
\* before it
TimedAcquire(i) ==
    /\ unit[i] = "waiting"
    /\ CanAcquire(permits)
    /\ permits' = permits - 1
    /\ holding' = [holding EXCEPT ![i] = TRUE]
    /\ unit' = [unit EXCEPT ![i] = "inflight"]
    /\ attempts' = [attempts EXCEPT ![i] = @ + 1]
    /\ base_command' = [base_command EXCEPT ![i] = BaseCommandOf(i)]
    /\ start' = [start EXCEPT ![i] = DriverStart(overall_start, now)]
    /\ awaiting' = [awaiting EXCEPT ![i] = IF DriverPanics THEN 0 ELSE 1]
    /\ UNCHANGED <<pc, args, config, output, spawned, collected, results, run_result>>
    /\ UNCHANGED <<now, overall_start, stream, function_vars>>

\* an await of execute_command other than the last returns Ok before the
\* timer fires; the first one, connect, yields the stream
AwaitReady(i) ==
    /\ unit[i] = "inflight"
    /\ config.protocol = FlashKV
    /\ awaiting[i] \in 1..(Len(ExchangeSteps) - 1)
    /\ TimerElapsed(i) <= Timeout
    /\ awaiting' = [awaiting EXCEPT ![i] = @ + 1]
    /\ stream' = [stream EXCEPT ![i] = IF ExchangeSteps[awaiting[i]] = "connect"
                                        THEN "open" ELSE @]
    /\ UNCHANGED <<pc, args, config, permits, unit, holding, attempts, output, spawned,
                   collected, results, run_result, base_command>>
    /\ UNCHANGED <<now, overall_start, start, function_vars>>

\* the line the server of a timed run sends
TimedResponseLines == {<<"+","O","K","\r","\n">>}
\* what the exchange of a task can give at this instant, its awaits taken as
\* one: a response line, an error (from connect), the timer
TimedKvNetResults(i) ==
    {net \in [kind : {"response"}, line : TimedResponseLines] \cup
             {[kind |-> "io_error", line |-> TransportErrorText, step |-> "connect"]} :
        TimerElapsed(i) <= Timeout}
    \cup {net \in {[kind |-> "elapsed", line |-> <<>>]} : TimerElapsed(i) >= Timeout}
\* send().await gives any response or transport error before the timer
\* fires, and the transport error of the timer from then on
TimedHttpNetResults(i) ==
    {net \in HttpNetResults : net.kind = "failure" \/ TimerElapsed(i) <= Timeout}
TimedOutcomes(i) ==
    IF config.protocol = Http
    THEN {Http_fire_single_request(net, elapsed(start[i], now)) :
            net \in TimedHttpNetResults(i)}
    ELSE {FlashKV_fire_single_request(net, elapsed(start[i], now)) :
            net \in TimedKvNetResults(i)}
\* what the await a task stands at can give at this instant: the response
\* line from read_line, an error from the awaited step, the timer
StreamKvNetResults(i) ==
    {net \in [kind : {"response"}, line : TimedResponseLines] :
        ExchangeSteps[awaiting[i]] = "read_line" /\ TimerElapsed(i) <= Timeout}
    \cup {net \in {[kind |-> "io_error", line |-> TransportErrorText,
                    step |-> ExchangeSteps[awaiting[i]]]} : TimerElapsed(i) <= Timeout}
    \cup {net \in {[kind |-> "elapsed", line |-> <<>>]} : TimerElapsed(i) >= Timeout}
StreamOutcomes(i) ==
    {FlashKV_fire_single_request(net, elapsed(start[i], now)) : net \in StreamKvNetResults(i)}

\* fire_single_request returns, the exchange of the request taken as one
\* await: its locals are dropped, `start` with them, then the task yields
\* the outcome and `_permit` is dropped
TimedComplete(i) ==
    /\ unit[i] = "inflight"
    /\ ~DriverPanics
    /\ \E o \in TimedOutcomes(i) : output' = [output EXCEPT ![i] = Some(o)]
    /\ start' = [start EXCEPT ![i] = 0]
    /\ awaiting' = [awaiting EXCEPT ![i] = 0]
    /\ unit' = [unit EXCEPT ![i] = "done"]
    /\ holding' = [holding EXCEPT ![i] = FALSE]
    /\ permits' = DropPermit(permits)
    /\ UNCHANGED <<pc, args, config, attempts, spawned, collected, results, run_result>>
    /\ UNCHANGED <<base_command, now, overall_start, stream, function_vars>>

\* fire_single_request returns, the exchange of the FlashKV request followed
\* await by await: its locals are dropped, the stream with them, then the
\* task yields the outcome and `_permit` is dropped
StreamComplete(i) ==
    /\ unit[i] = "inflight"
    /\ ~DriverPanics
    /\ \E o \in StreamOutcomes(i) : output' = [output EXCEPT ![i] = Some(o)]
    /\ stream' = [stream EXCEPT ![i] = drop(@)]
    /\ start' = [start EXCEPT ![i] = 0]
    /\ awaiting' = [awaiting EXCEPT ![i] = 0]
    /\ unit' = [unit EXCEPT ![i] = "done"]
    /\ holding' = [holding EXCEPT ![i] = FALSE]
    /\ permits' = DropPermit(permits)
    /\ UNCHANGED <<pc, args, config, attempts, spawned, collected, results, run_result>>
    /\ UNCHANGED <<base_command, now, overall_start, function_vars>>

\* run_load_test reads the clock after the collection loop and returns
TimedReturn ==
    /\ pc = "running"
    /\ spawned = config.num_requests
    /\ collected = spawned
    /\ run_result' = ReturnValue(results, total_duration_as_millis(overall_start, now))
    /\ pc' = "returned"
    /\ UNCHANGED <<args, config, permits, unit, holding, attempts, output, spawned,
                   collected, results>>
    /\ UNCHANGED <<base_command, clock_vars, function_vars>>

TimedNext ==
    \/ ClockTick
    \/ TimedHttp_run_load_test
    \/ TimedFlashKV_run_load_test
    \/ SpawnUnit
    \/ \E i \in Units : TimedAcquire(i)
    \/ \E i \in Units : TimedComplete(i)
    \/ \E i \in Units : Panic(i)
    \/ AwaitHandle
    \/ TimedReturn
\* run_load_test of up to MaxTimedRequests requests against a clock of MaxTicks steps
TimedSpec == TimedInit /\ [][TimedNext]_vars

\* FlashKV runs whose timer is due at once (timeout_secs = 0): at every await
\* of execute_command both the awaited step and the timer may win
StreamConfigs ==
    {LoadTestConfig(FlashKV, n, c, 0, None, Some(kv)) :
        n \in 0..MaxTimedRequests, c \in 0..MaxConcurrency, kv \in TimedFlashKVConfigs}
StreamInit ==
    /\ pc = "call"
    /\ args = NoArgs
    /\ config \in StreamConfigs
    /\ EngineIdle
    /\ FunctionsIdle
StreamNext ==
    \/ TimedFlashKV_run_load_test
    \/ SpawnUnit
    \/ \E i \in Units : TimedAcquire(i)
    \/ \E i \in Units : AwaitReady(i)
    \/ \E i \in Units : StreamComplete(i)
    \/ \E i \in Units : Panic(i)
    \/ AwaitHandle
    \/ TimedReturn
\* flashkv::run_load_test with the connection of every request followed
StreamSpec == StreamInit /\ [][StreamNext]_vars

(***************************************************************************)
(* Functions called on their own, for every argument of a bounded set.     *)
(***************************************************************************)
SeqsUpTo(S, k) == UNION {[1..n -> S] : n \in 0..k}
FunctionInit(calls) ==
    /\ pc = "function"
    /\ args = NoArgs
    /\ config = NoConfig
    /\ EngineIdle
    /\ call \in calls
    /\ ret = None
    /\ exchange = NoExchange

\* outcomes of both kinds: successes, a failure with and one without an error text
StatsOutcomes ==
    {RequestResult(100, STATUS_OK, TRUE, None),
     RequestResult(150, STATUS_OK, TRUE, None),
     RequestResult(50, 0, FALSE, Some(TransportErrorText)),
     RequestResult(200, STATUS_ERROR, FALSE, None)}
\* total_duration in milliseconds: none, one that does not divide 1000, one and two seconds
StatsTotalDurations == {0, 7, 1000, 2000}
StatsCalls ==
    {[fn |-> "calculate_stats", results |-> rs, total_duration |-> td] :
        rs \in SeqsUpTo(StatsOutcomes, MaxOutcomes), td \in StatsTotalDurations}
StatsInit == FunctionInit(StatsCalls)

Call_calculate_stats ==
    /\ pc = "function"
    /\ call.fn = "calculate_stats"
    /\ ret = None
    /\ ret' = Some(calculate_stats(call.results, call.total_duration))
    /\ UNCHANGED <<pc, args, config, engine_vars, call, exchange>>

StatsNext == Call_calculate_stats
\* calculate_stats applied to every sequence of outcomes up to MaxOutcomes
StatsSpec == StatsInit /\ [][StatsNext]_vars

\* durations in milliseconds
PercentileDurations == {0, 30, 100, 200}
\* the pct of the statistics (50, 95, 99) and the two ends
Percentiles == {0, 50, 95, 99, 100}
IsAscending(data) == \A i \in 1..(Len(data) - 1) : data[i] <= data[i + 1]
\* percentile is handed sorted data that is not empty
PercentileCalls ==
    {[fn |-> "percentile", data |-> d, pct |-> p] :
        d \in {x \in SeqsUpTo(PercentileDurations, MaxData) : x # <<>> /\ IsAscending(x)},
        p \in Percentiles}
PercentileInit == FunctionInit(PercentileCalls)

Call_percentile ==
    /\ pc = "function"
    /\ call.fn = "percentile"
    /\ ret = None
    /\ ret' = Some(percentile(call.data, F64FromNat(call.pct)))
    /\ UNCHANGED <<pc, args, config, engine_vars, call, exchange>>

PercentileNext == Call_percentile
\* percentile applied to every ascending sequence of durations up to MaxData
PercentileSpec == PercentileInit /\ [][PercentileNext]_vars

\* status codes of every class, at the edges of the successful class
DriverHttpStatuses == {100, 199, 200, 204, 299, 300, 301, 404, 500, 599}
\* e.to_string() of a failed send: connection refused, DNS failure, timeout
DriverTransportErrors ==
    {<<"r","e","f","u","s","e","d">>,
     <<"d","n","s"," ","e","r","r","o","r">>,
     <<"t","i","m","e","d"," ","o","u","t">>}
DriverHttpNetResults ==
    {[kind |-> "response", status |-> st, text |-> <<>>] : st \in DriverHttpStatuses}
    \cup {[kind |-> "failure", status |-> 0, text |-> t] : t \in DriverTransportErrors}
HttpDriverCalls ==
    {[fn |-> "http::fire_single_request", net |-> net, duration |-> d] :
        net \in DriverHttpNetResults, d \in Durations}

\* the lines a server may answer: how the line begins, what follows, how it ends
LinePrefixes ==
    {<<>>,
     <<" ">>,
     <<"-">>,
     <<"-","E","R","R"," ">>,
     <<"e","r","r"," ">>,
     <<"E","R","R","O","R"," ">>,
     <<"E","r">>,
     <<"+">>}
LineBodies ==
    {<<>>,
     <<"O","K">>,
     <<"(","n","i","l",")">>,
     <<"N","I","L">>,
     <<"N","o","t"," ","F","o","u","n","d">>,
     <<"r","1">>}
LineEndings ==
    {<<"\r","\n">>,
     <<"\n">>,
     <<>>}
DriverResponseLines ==
    {p \o b \o e : p \in LinePrefixes, b \in LineBodies, e \in LineEndings}
DriverKvNetResults ==
    {[kind |-> "response", line |-> l] : l \in DriverResponseLines}
    \cup {[kind |-> "io_error", line |-> t, step |-> ExchangeSteps[k]] :
            t \in DriverTransportErrors, k \in 1..Len(ExchangeSteps)}
    \cup {[kind |-> "elapsed", line |-> <<>>]}
FlashKVDriverCalls ==
    {[fn |-> "flashkv::fire_single_request", net |-> net, duration |-> d] :
        net \in DriverKvNetResults, d \in Durations}
DriverInit == FunctionInit(HttpDriverCalls \cup FlashKVDriverCalls)

Call_http_fire_single_request ==
    /\ pc = "function"
    /\ call.fn = "http::fire_single_request"
    /\ ret = None
    /\ ret' = Some(Http_fire_single_request(call.net, call.duration))
    /\ UNCHANGED <<pc, args, config, engine_vars, call, exchange>>

\* the command list is not empty and the key range not 0: the driver gets to
\* the network exchange
Call_flashkv_fire_single_request ==
    /\ pc = "function"
    /\ call.fn = "flashkv::fire_single_request"
    /\ ret = None
    /\ ret' = Some(FlashKV_fire_single_request(call.net, call.duration))
    /\ UNCHANGED <<pc, args, config, engine_vars, call, exchange>>

DriverNext == Call_http_fire_single_request \/ Call_flashkv_fire_single_request
\* one driver invocation, for every answer of the network
DriverSpec == DriverInit /\ [][DriverNext]_vars

\* keys, values, seconds and patterns of the commands handed to the functions
CommandKeys == {<<"k">>, <<"k","e","y">>, <<"U","s","e","r",":","1">>}
CommandValues == {<<"v","a","l","u","e">>, <<"V","a","l"," ","2">>}
CommandSeconds == {0, 7, 60, 1000}
CommandPatterns == {<<"*">>, <<"k","*">>}
\* raw command texts: how they begin and how they end
RawBodies == {<<>>, <<"X">>, <<"G","E","T"," ","k">>, <<"m","g","e","t"," ","a"," "," ","b">>}
RawEndings ==
    {<<>>, <<"\r","\n">>, <<"\n">>, <<" ","\n">>, <<"\t","\n">>, <<"\n","\n">>,
     <<"\r","\n","\n">>, <<"\r">>, <<" ">>}
RawTexts == {b \o e : b \in RawBodies, e \in RawEndings}
NamedCommands ==
    {Ping, FlushDb}
    \cup {Command(name, k, <<>>, 0, <<>>, <<>>) :
            name \in {"GET", "DEL", "INCR", "DECR", "LPOP", "EXISTS", "TTL"}, k \in CommandKeys}
    \cup {Command(name, k, v, 0, <<>>, <<>>) :
            name \in {"SET", "LPUSH"}, k \in CommandKeys, v \in CommandValues}
    \cup {Expire(k, n) : k \in CommandKeys, n \in CommandSeconds}
    \cup {Keys(pt) : pt \in CommandPatterns}
RawCommands == {Raw(t) : t \in RawTexts}
KeyPrefixes == {<<"k","e","y">>, <<>>}

\* first tokens: every verb in upper, lower and mixed case (DELETE is DEL),
\* and tokens that are no verb
VerbSpellings ==
    {[letters |-> <<"P","I","N","G">>, verb |-> "PING"],
     [letters |-> <<"p","i","n","g">>, verb |-> "PING"],
     [letters |-> <<"p","I","n","G">>, verb |-> "PING"],
     [letters |-> <<"G","E","T">>, verb |-> "GET"],
     [letters |-> <<"g","e","t">>, verb |-> "GET"],
     [letters |-> <<"g","E","t">>, verb |-> "GET"],
     [letters |-> <<"S","E","T">>, verb |-> "SET"],
     [letters |-> <<"s","e","t">>, verb |-> "SET"],
     [letters |-> <<"s","E","t">>, verb |-> "SET"],
     [letters |-> <<"D","E","L">>, verb |-> "DEL"],
     [letters |-> <<"d","e","l">>, verb |-> "DEL"],
     [letters |-> <<"d","E","l">>, verb |-> "DEL"],
     [letters |-> <<"D","E","L","E","T","E">>, verb |-> "DEL"],
     [letters |-> <<"d","e","l","e","t","e">>, verb |-> "DEL"],
     [letters |-> <<"d","E","l","E","t","E">>, verb |-> "DEL"],
     [letters |-> <<"I","N","C","R">>, verb |-> "INCR"],
     [letters |-> <<"i","n","c","r">>, verb |-> "INCR"],
     [letters |-> <<"i","N","c","R">>, verb |-> "INCR"],
     [letters |-> <<"D","E","C","R">>, verb |-> "DECR"],
     [letters |-> <<"d","e","c","r">>, verb |-> "DECR"],
     [letters |-> <<"d","E","c","R">>, verb |-> "DECR"],
     [letters |-> <<"L","P","U","S","H">>, verb |-> "LPUSH"],
     [letters |-> <<"l","p","u","s","h">>, verb |-> "LPUSH"],
     [letters |-> <<"l","P","u","S","h">>, verb |-> "LPUSH"],
     [letters |-> <<"L","P","O","P">>, verb |-> "LPOP"],
     [letters |-> <<"l","p","o","p">>, verb |-> "LPOP"],
     [letters |-> <<"l","P","o","P">>, verb |-> "LPOP"],
     [letters |-> <<"E","X","I","S","T","S">>, verb |-> "EXISTS"],
     [letters |-> <<"e","x","i","s","t","s">>, verb |-> "EXISTS"],
     [letters |-> <<"e","X","i","S","t","S">>, verb |-> "EXISTS"],
     [letters |-> <<"E","X","P","I","R","E">>, verb |-> "EXPIRE"],
     [letters |-> <<"e","x","p","i","r","e">>, verb |-> "EXPIRE"],
     [letters |-> <<"e","X","p","I","r","E">>, verb |-> "EXPIRE"],
     [letters |-> <<"T","T","L">>, verb |-> "TTL"],
     [letters |-> <<"t","t","l">>, verb |-> "TTL"],
     [letters |-> <<"t","T","l">>, verb |-> "TTL"],
     [letters |-> <<"K","E","Y","S">>, verb |-> "KEYS"],
     [letters |-> <<"k","e","y","s">>, verb |-> "KEYS"],
     [letters |-> <<"k","E","y","S">>, verb |-> "KEYS"],
     [letters |-> <<"F","L","U","S","H","D","B">>, verb |-> "FLUSHDB"],
     [letters |-> <<"f","l","u","s","h","d","b">>, verb |-> "FLUSHDB"],
     [letters |-> <<"f","L","u","S","h","D","b">>, verb |-> "FLUSHDB"],
     [letters |-> <<"H","E","L","L","O">>, verb |-> "RAW"],
     [letters |-> <<"G","E","T","S">>, verb |-> "RAW"],
     [letters |-> <<"p","i","n">>, verb |-> "RAW"],
     [letters |-> <<"m","g","e","t">>, verb |-> "RAW"],
     [letters |-> <<"+","O","K">>, verb |-> "RAW"]}
\* the tokens after the verb: keys, values and seconds, among them texts that
\* are no unsigned integer
ArgumentTokens == {<<"K","e","y">>, <<"7">>, <<"-","1">>, <<"v","A","l">>}
\* the white space between two tokens, before the first and after the last
Separators == {<<" ">>, <<" ","\t">>}
Margins == {<<>>, <<" ">>, <<"\n">>}
\* tokens with the separator in front of each
RECURSIVE Separated(_, _)
Separated(tokens, sep) ==
    IF tokens = <<>> THEN <<>> ELSE sep \o Head(tokens) \o Separated(Tail(tokens), sep)
\* the texts handed to from_str, each with the tokens it was written with
FromStrCalls ==
    {[fn |-> "from_str",
      s |-> lead \o v.letters \o Separated(arguments, sep) \o trail,
      verb |-> v.verb,
      tokens |-> <<v.letters>> \o arguments] :
        lead \in Margins, v \in VerbSpellings, arguments \in SeqsUpTo(ArgumentTokens, MaxArguments),
        sep \in Separators, trail \in Margins}
    \cup {[fn |-> "from_str", s |-> lead \o trail, verb |-> "NONE", tokens |-> <<>>] :
            lead \in Margins, trail \in Margins}
FromStrInit == FunctionInit(FromStrCalls)

Call_from_str ==
    /\ pc = "function"
    /\ call.fn = "from_str"
    /\ ret = None
    /\ ret' = Some(FlashKVCommand_from_str(call.s))
    /\ UNCHANGED <<pc, args, config, engine_vars, call, exchange>>

FromStrNext == Call_from_str
\* FlashKVCommand::from_str applied to texts of up to MaxArguments arguments
FromStrSpec == FromStrInit /\ [][FromStrNext]_vars

ToWireFormatCalls ==
    {[fn |-> "to_wire_format", self |-> c] : c \in NamedCommands \cup RawCommands}
WithRandomKeyCalls ==
    {[fn |-> "with_random_key", self |-> c, prefix |-> pf, range |-> r] :
        c \in NamedCommands \cup RawCommands, pf \in KeyPrefixes, r \in 0..MaxRandomRange}
\* commands whose key or value is not made of single-spaced tokens
LooseCommands ==
    {Get(<<"a"," ","b">>), Get(<<>>), Get(<<" ","k">>),
     Set(<<"k">>, <<"a"," "," ","b">>), Set(<<"k">>, <<>>), Set(<<"k">>, <<"v"," ">>),
     Keys(<<"a"," ","*">>), Keys(<<>>)}
\* a command written with to_wire_format and read back with from_str
RoundTripCalls ==
    {[fn |-> "from_str(to_wire_format)", self |-> c] : c \in NamedCommands \cup LooseCommands}
CommandInit == FunctionInit(ToWireFormatCalls \cup WithRandomKeyCalls \cup RoundTripCalls)

Call_to_wire_format ==
    /\ pc = "function"
    /\ call.fn = "to_wire_format"
    /\ ret = None
    /\ ret' = Some(to_wire_format(call.self))
    /\ UNCHANGED <<pc, args, config, engine_vars, call, exchange>>

\* random_range draws the suffix, or panics when the range is empty
Call_with_random_key ==
    /\ pc = "function"
    /\ call.fn = "with_random_key"
    /\ ret = None
    /\ IF random_range_panics(call.range)
       THEN pc' = "panicked" /\ UNCHANGED ret
       ELSE /\ \E random_suffix \in 0..(call.range - 1) :
                  ret' = Some(with_random_key(call.self, call.prefix, random_suffix))
            /\ UNCHANGED pc
    /\ UNCHANGED <<args, config, engine_vars, call, exchange>>

Call_round_trip ==
    /\ pc = "function"
    /\ call.fn = "from_str(to_wire_format)"
    /\ ret = None
    /\ ret' = Some(FlashKVCommand_from_str(to_wire_format(call.self)))
    /\ UNCHANGED <<pc, args, config, engine_vars, call, exchange>>

CommandNext == Call_to_wire_format \/ Call_with_random_key \/ Call_round_trip
\* to_wire_format and with_random_key applied to commands of every variant
CommandSpec == CommandInit /\ [][CommandNext]_vars

(***************************************************************************)
(* Protocol::from_str applied to protocol names in every mix of upper and   *)
(* lower case, and to texts that are no protocol name                       *)
(***************************************************************************)
ProtocolNameTexts ==
    {<<"h","t","t","p">>, <<"h","t","t","p","s">>, <<"f","l","a","s","h","k","v">>,
     <<"k","v">>, <<"t","c","p">>}
RECURSIVE CaseSpellings(_)
CaseSpellings(s) ==
    IF s = <<>> THEN {<<>>}
    ELSE {<<c>> \o rest : c \in {ToLowerChar(Head(s)), ToUpperChar(Head(s))},
                          rest \in CaseSpellings(Tail(s))}
OtherProtocolTexts ==
    {<<>>, <<"f","t","p">>, <<"h","t","t">>, <<"h","t","t","p","x">>, <<"h","t","t","p"," ">>,
     <<" ","k","v">>, <<"k"," ","v">>, <<"T","C","P","\n">>, <<"r","e","d","i","s">>,
     <<"i","n","v","a","l","i","d">>, <<"h","t","t","p","s",":","/","/">>, <<"u","d","p">>}
ProtocolFromStrCalls ==
    UNION {{[fn |-> "Protocol::from_str", s |-> t, name |-> n] : t \in CaseSpellings(n)} :
             n \in ProtocolNameTexts}
    \cup {[fn |-> "Protocol::from_str", s |-> t, name |-> <<>>] : t \in OtherProtocolTexts}
ProtocolInit == FunctionInit(ProtocolFromStrCalls)

Call_Protocol_from_str ==
    /\ pc = "function"
    /\ call.fn = "Protocol::from_str"
    /\ ret = None
    /\ ret' = Some(Protocol_from_str(call.s))
    /\ UNCHANGED <<pc, args, config, engine_vars, call, exchange>>

ProtocolNext == Call_Protocol_from_str
ProtocolSpec == ProtocolInit /\ [][ProtocolNext]_vars

(***************************************************************************)
(* flashkv::fire_single_request followed await by await against a clock:   *)
(* `timeout(Duration::from_secs(timeout_secs), execute_command(..)).await` *)
(* polls execute_command first and the timer second, so an await of        *)
(* execute_command that is ready no later than the deadline is taken, and  *)
(* the timer ends the exchange once the deadline is reached with an await  *)
(* still pending.                                                          *)
(***************************************************************************)
Deadline == Duration_from_secs(call.timeout_secs)
Pending == exchange.result = "pending"
\* the await execute_command stands at
AwaitedStep == ExchangeSteps[exchange.at]

ExchangeCalls ==
    {[fn |-> "flashkv::fire_single_request", timeout_secs |-> t] : t \in 0..MaxTimeoutSecs}
ExchangeInit ==
    /\ pc = "function"
    /\ args = NoArgs
    /\ config = NoConfig
    /\ EngineIdle
    /\ call \in ExchangeCalls
    /\ ret = None
    /\ exchange = [at |-> 1, now |-> 0, result |-> "pending", answer |-> <<>>]

\* time passes while an await is pending and the timer has not fired
Tick ==
    /\ Pending
    /\ exchange.now < Deadline
    /\ exchange' = [exchange EXCEPT !.now = @ + ClockStepMs]
    /\ UNCHANGED <<pc, args, config, engine_vars, call, ret>>

\* connect, write_all or flush succeeds: execute_command goes on to the next await
AwaitOk ==
    /\ Pending
    /\ exchange.now <= Deadline
    /\ exchange.at < Len(ExchangeSteps)
    /\ exchange' = [exchange EXCEPT !.at = @ + 1]
    /\ UNCHANGED <<pc, args, config, engine_vars, call, ret>>

\* an await fails with an io error: `?` returns it wrapped in its context
AwaitErr ==
    /\ Pending
    /\ exchange.now <= Deadline
    /\ \E t \in DriverTransportErrors :
          /\ ret' = Some(FlashKV_fire_single_request(
                          [kind |-> "io_error", line |-> t, step |-> AwaitedStep],
                          exchange.now))
          /\ exchange' = [exchange EXCEPT !.result = "Ok(Err)", !.answer = t]
    /\ UNCHANGED <<pc, args, config, engine_vars, call>>

\* read_line returns Ok: the bytes up to and including the newline, or up to
\* the end of the stream when the peer closed the connection (no byte at all
\* when it closed without answering)
ReadLine ==
    /\ Pending
    /\ exchange.now <= Deadline
    /\ AwaitedStep = "read_line"
    /\ \E l \in DriverResponseLines :
          /\ ret' = Some(FlashKV_fire_single_request([kind |-> "response", line |-> l],
                                                    exchange.now))
          /\ exchange' = [exchange EXCEPT !.result = "Ok(Ok)", !.answer = l]
    /\ UNCHANGED <<pc, args, config, engine_vars, call>>

\* the timer fires with an await still pending: timeout returns Err(Elapsed)
Elapsed ==
    /\ Pending
    /\ exchange.now >= Deadline
    /\ ret' = Some(FlashKV_fire_single_request([kind |-> "elapsed", line |-> <<>>],
                                                exchange.now))
    /\ exchange' = [exchange EXCEPT !.result = "Err(Elapsed)"]
    /\ UNCHANGED <<pc, args, config, engine_vars, call>>

ExchangeNext == Tick \/ AwaitOk \/ AwaitErr \/ ReadLine \/ Elapsed
\* one KV-TCP attempt against a clock, for every timeout up to MaxTimeoutSecs
ExchangeSpec == ExchangeInit /\ [][ExchangeNext]_vars

(***************************************************************************)
(* Properties.                                                             *)
(***************************************************************************)
n_requests == config.num_requests
InFlight == {i \in Units : unit[i] = "inflight"}
Waiting == {i \in Units : unit[i] = "waiting"}
Panicked == {i \in Units : unit[i] = "panicked"}
Holders == {i \in Units : holding[i]}
RunStarted == pc \in {"running", "returned", "exit"}
\* the outcomes of the tasks i..n-1 that did not crash, in dispatch order
RECURSIVE OutcomesFrom(_)
OutcomesFrom(i) ==
    IF i >= n_requests THEN <<>>
    ELSE (IF unit[i] = "done" THEN output[i] ELSE <<>>) \o OutcomesFrom(i + 1)

\* C1: with concurrency c >= 1, in every reachable state of a run (HTTP or
\* FlashKV) the number of tasks between permit acquisition and permit
\* release is at most c.
C1_ConcurrencyCeiling ==
    config.concurrency >= 1 => Cardinality(InFlight) <= config.concurrency
\* the ceiling is reached while another task waits for a permit
C1_Witness ==
    /\ pc = "running"
    /\ config.concurrency >= 1
    /\ Cardinality(InFlight) = config.concurrency
    /\ Waiting # {}

\* C2: no task starts more than one driver invocation; when run_load_test
\* returns a report with c >= 1 and no task crashed, every dispatch index
\* 0..n-1 was invoked exactly once, total_requests = n and
\* successful_requests + failed_requests = n.
C2_ExactlyOneAttemptEach ==
    /\ \A i \in Units : attempts[i] <= 1
    /\ (run_result.kind = "Ok" /\ config.concurrency >= 1 /\ Panicked = {}) =>
          /\ \A i \in Units : attempts[i] = IF i < n_requests THEN 1 ELSE 0
          /\ run_result.stats.total_requests = n_requests
          /\ run_result.stats.successful_requests + run_result.stats.failed_requests
                = n_requests
\* a throttled run returned although some attempts failed and some timed out
C2_Witness ==
    /\ run_result.kind = "Ok"
    /\ n_requests >= 2
    /\ config.concurrency = 1
    /\ \E j \in 1..Len(results) : results[j].status = STATUS_TIMEOUT
    /\ \E j \in 1..Len(results) : results[j].success

\* C3: in the state where run_load_test has returned, no task waits for a
\* permit or holds one, and when it returned a report every one of the n
\* spawned tasks has ended (completed its invocation or crashed).
C3_ReturnsAfterAllFinished ==
    pc = "returned" =>
        /\ \A i \in Units : unit[i] \notin {"waiting", "inflight"} /\ ~holding[i]
        /\ run_result.kind = "Ok" =>
              \A i \in Units : i < n_requests => unit[i] \in {"done", "panicked"}
\* a report was returned for a run of several tasks
C3_Witness ==
    /\ pc = "returned"
    /\ run_result.kind = "Ok"
    /\ n_requests >= 2
    /\ spawned = n_requests

\* C4: with c >= 1, under fair scheduling and terminating driver
\* invocations, every call of run_load_test eventually returns, and when it
\* returns its report every one of the n tasks has acquired a permit and
\* entered the driver.
C4_RunCompletes ==
    (pc = "call" /\ config.concurrency >= 1) ~>
        (/\ pc = "returned"
         /\ run_result.kind = "Ok" =>
               \A i \in Units : i < n_requests => attempts[i] = 1 /\ unit[i] # "waiting")
\* a run with more tasks than permits returned with failed and timed-out attempts only
C4_Witness ==
    /\ pc = "returned"
    /\ n_requests > config.concurrency
    /\ config.concurrency >= 1
    /\ Len(results) = n_requests
    /\ \A j \in 1..Len(results) : ~results[j].success
    /\ \E j \in 1..Len(results) : results[j].status = STATUS_CONNECTION_ERROR

\* C5: a task is inside its driver invocation only while it holds a permit;
\* once the semaphore exists, available permits + permits held = concurrency;
\* when the run has returned its report all c permits are available.
C5_PermitAccounting ==
    /\ \A i \in Units : unit[i] = "inflight" => holding[i]
    /\ (pc = "running" \/ run_result.kind = "Ok") =>
          permits + Cardinality(Holders) = config.concurrency
    /\ run_result.kind = "Ok" => permits = config.concurrency
\* tasks crashed inside the driver and every permit is back
C5_Witness ==
    /\ run_result.kind = "Ok"
    /\ Cardinality(Panicked) >= 2
    /\ config.concurrency = 1
    /\ permits = config.concurrency

\* C6: when k of the n tasks crash, run_load_test still returns Ok, with
\* total_requests = n - k and results holding exactly the outcomes of the
\* tasks that did not crash.
C6_CrashedUnitsDropped ==
    /\ (pc = "returned" /\ Panicked # {}) => run_result.kind = "Ok"
    /\ run_result.kind = "Ok" =>
          /\ run_result.stats.total_requests = n_requests - Cardinality(Panicked)
          /\ results = OutcomesFrom(0)
\* every task of a run crashed and the run returned a report
C6_Witness ==
    /\ pc = "returned"
    /\ run_result.kind = "Ok"
    /\ Cardinality(Panicked) = n_requests
    /\ n_requests >= 2
    /\ run_result.stats.total_requests = 0

\* C7: a configuration whose request-count or concurrency is 0 is rejected
\* before the run starts: no task is dispatched and no report is produced.
C7_NonPositiveRejected ==
    (config # NoConfig /\ (config.num_requests = 0 \/ config.concurrency = 0)) =>
        ~RunStarted /\ spawned = 0 /\ run_result.kind = "None"

\* C8: when the --protocol name is not a supported protocol name, the run is
\* rejected before it starts: no request of any protocol is attempted.
C8_UnknownProtocolRejected ==
    (args.mode = "quick" /\ ~Protocol_from_str(args.protocol).ok) =>
        \A i \in Units : attempts[i] = 0

\* C9: when the FlashKV command text of a run fails to parse, no request is
\* dispatched (in particular not with another command in place of the
\* malformed one).
C9_MalformedCommandRejected ==
    (/\ args.mode = "quick"
     /\ args.command # None
     /\ config.protocol = FlashKV
     /\ ~FlashKVCommand_from_str(args.command[1]).ok) =>
        \A i \in Units : attempts[i] = 0

\* C10: run_load_test returns an error only when the HTTP client cannot be
\* built, and then no task was spawned and no request attempted; the FlashKV
\* run_load_test never returns an error.
C10_OnlyClientBuildFails ==
    /\ run_result.kind = "Err" =>
          /\ config.protocol = Http
          /\ run_result.err = "Failed to build HTTP client"
          /\ spawned = 0
          /\ \A i \in Units : unit[i] = "unspawned" /\ attempts[i] = 0
    /\ config.protocol = FlashKV => run_result.kind # "Err"
\* the HTTP run of a non-empty configuration returned an error
C10_Witness ==
    /\ pc = "returned"
    /\ run_result.kind = "Err"
    /\ n_requests >= 1

(***************************************************************************)
(* The statistics.                                                         *)
(***************************************************************************)
StatsReturned == call.fn = "calculate_stats" /\ ret # None
Successes(rs) == {i \in 1..Len(rs) : rs[i].success}
Failures(rs) == {i \in 1..Len(rs) : ~rs[i].success}

\* C11: calculate_stats reports total_requests = the number of outcomes,
\* successful_requests = the number of outcomes with success = true and
\* failed_requests = total_requests - successful_requests; the two counts
\* add up to the total and neither is negative.
C11_Counts ==
    StatsReturned =>
        LET st == ret[1]
            rs == call.results
        IN /\ st.total_requests = Len(rs)
           /\ st.successful_requests = Cardinality(Successes(rs))
           /\ st.failed_requests = st.total_requests - st.successful_requests
           /\ st.successful_requests + st.failed_requests = st.total_requests
           /\ st.successful_requests >= 0
           /\ st.failed_requests >= 0
\* the report of two successes and two failures, one of them without error text
C11_Witness ==
    /\ StatsReturned
    /\ Cardinality(Successes(call.results)) = 2
    /\ \E i, j \in Failures(call.results) :
          call.results[i].error = None /\ call.results[j].error # None
    /\ ret[1].failed_requests = 2

LatencyFields(st) ==
    <<st.min_latency, st.max_latency, st.avg_latency, st.p50, st.p95, st.p99>>
\* failed outcomes of other durations, statuses and error texts
FailedVariants ==
    {RequestResult(7, STATUS_TIMEOUT, FALSE, Some(TimedOutText)),
     RequestResult(50, 0, FALSE, None),
     RequestResult(200, STATUS_ERROR, FALSE, Some(TransportErrorText))}
RemoveAt(rs, i) == SubSeq(rs, 1, i - 1) \o SubSeq(rs, i + 1, Len(rs))
InsertAt(rs, i, x) == SubSeq(rs, 1, i) \o <<x>> \o SubSeq(rs, i + 1, Len(rs))
\* rs with one failed outcome changed, removed or added
FailedEdits(rs) ==
    {[rs EXCEPT ![i] = f] : i \in Failures(rs), f \in FailedVariants}
    \cup {RemoveAt(rs, i) : i \in Failures(rs)}
    \cup {InsertAt(rs, i, f) : i \in 0..Len(rs), f \in FailedVariants}
RECURSIVE SumOfDurations(_, _)
SumOfDurations(rs, I) ==
    IF I = {} THEN 0
    ELSE LET i == CHOOSE j \in I : TRUE IN rs[i].duration + SumOfDurations(rs, I \ {i})
\* x is within h half units in the last place of num / den (num, den > 0,
\* the quotient below 2^31): with the significand of x written in 53 bits,
\* x = M * 2^E, the distance of x to the quotient is at most h * 2^(E-1)
F64IsWithinHalfUlps(x, num, den, h) ==
    LET L == BigBitLen(x.m)
        E == x.e + L - MANTISSA_DIGITS
        M == BigShiftLeft(x.m, MANTISSA_DIGITS - L)
        A == BigMul(M, BigOfNat(den))
        N == BigShiftLeft(BigOfNat(num), -E)
        D == IF BigLeq(N, A) THEN BigSub(A, N) ELSE BigSub(N, A)
    IN x.m # <<>> /\ E < 0 /\ BigLeq(BigShiftLeft(D, 1), BigOfNat(h * den))
\* x is an f64 nearest to num / den
F64IsNearest(x, num, den) == F64IsWithinHalfUlps(x, num, den, 1)

\* C12: the six latency fields are computed over the successful outcomes
\* only: changing the duration, status or error of a failed outcome, removing
\* a failed outcome or adding one leaves min, max, avg, p50, p95 and p99
\* unchanged; with at least one success, min is the smallest and max the
\* largest successful duration and avg is (the f64 nearest to) their sum
\* divided by their count.
C12_LatenciesOfSuccessesOnly ==
    StatsReturned =>
        LET st == ret[1]
            rs == call.results
            D == {rs[i].duration : i \in Successes(rs)}
        IN /\ \A other \in FailedEdits(rs) :
                 LatencyFields(calculate_stats(other, call.total_duration))
                    = LatencyFields(st)
           /\ Successes(rs) # {} =>
                 /\ st.min_latency \in D /\ \A d \in D : st.min_latency <= d
                 /\ st.max_latency \in D /\ \A d \in D : d <= st.max_latency
                 /\ F64IsNearest(st.avg_latency, SumOfDurations(rs, Successes(rs)),
                                 Cardinality(Successes(rs)))
\* the mixed outcomes (100, success), (50, fail), (200, fail without error),
\* (150, success): min = 100, max = 150, mean = 125.0
C12_Witness ==
    /\ StatsReturned
    /\ call.results = <<RequestResult(100, STATUS_OK, TRUE, None),
                        RequestResult(50, 0, FALSE, Some(TransportErrorText)),
                        RequestResult(200, STATUS_ERROR, FALSE, None),
                        RequestResult(150, STATUS_OK, TRUE, None)>>
    /\ call.total_duration = 2000
    /\ ret[1].successful_requests = 2
    /\ ret[1].failed_requests = 2
    /\ ret[1].min_latency = 100
    /\ ret[1].max_latency = 150
    /\ ret[1].avg_latency = F64FromNat(125)

\* C13: when no outcome has success = true (the empty sequence included),
\* for every total_duration, 0 included, the report has min_latency =
\* max_latency = p50 = p95 = p99 = 0 and avg_latency = 0.0.
C13_NoSuccessAllZero ==
    (StatsReturned /\ Successes(call.results) = {}) =>
        /\ ret[1].min_latency = 0
        /\ ret[1].max_latency = 0
        /\ ret[1].avg_latency = F64Zero
        /\ ret[1].p50 = 0
        /\ ret[1].p95 = 0
        /\ ret[1].p99 = 0
\* the report of two failed outcomes and total_duration 0
C13_Witness ==
    /\ StatsReturned
    /\ Len(call.results) = 2
    /\ Successes(call.results) = {}
    /\ call.total_duration = 0
    /\ ret[1].failed_requests = 2
    /\ ret[1].max_latency = 0

(***************************************************************************)
(* The percentile.                                                         *)
(***************************************************************************)
PercentileReturned == call.fn = "percentile" /\ ret # None
\* the linear-interpolation percentile in exact arithmetic: rank is
\* rank100 / 100, data is indexed from 1
LinearInterpolation(data, p) ==
    LET len == Len(data)
        rank100 == p * (len - 1)
        lower == rank100 \div 100
        upper == IF rank100 % 100 = 0 THEN lower ELSE lower + 1
    IN IF lower = upper \/ upper >= len
       THEN data[Min2(lower, len - 1) + 1]
       ELSE data[lower + 1]
            + (((rank100 - 100 * lower) * (data[upper + 1] - data[lower + 1])) \div 100)

\* C14: for every non-empty ascending sequence of durations and every p in
\* {0, 50, 95, 99, 100}, percentile(p) equals the linear interpolation at
\* rank = (p/100)*(len-1) between data[floor(rank)] and data[ceil(rank)],
\* truncated toward zero.
C14_PercentileIsLinearInterpolation ==
    PercentileReturned => ret[1] = LinearInterpolation(call.data, call.pct)

\* C15: requests_per_second = total_requests / total_duration * 1000 when
\* total_duration > 0 (milliseconds; failed outcomes count too), computed in
\* f64 with one rounding for the division and one for the product, and 0.0
\* when total_duration = 0; 4 outcomes give 2.0 for total_duration 2000 and
\* 4.0 for total_duration 1000.
C15_RequestsPerSecond ==
    StatsReturned =>
        LET rps == ret[1].requests_per_second
            n == Len(call.results)
            td == call.total_duration
        IN /\ td = 0 => rps = F64Zero
           /\ (td > 0 /\ n = 0) => rps = F64Zero
           /\ (td > 0 /\ n > 0) => F64IsWithinHalfUlps(rps, n * 1000, td, 3)
           /\ (n = 4 /\ td = 2000) => rps = F64FromNat(2)
           /\ (n = 4 /\ td = 1000) => rps = F64FromNat(4)
\* four outcomes, failed ones among them, in two seconds: 2.0 per second
C15_Witness ==
    /\ StatsReturned
    /\ Len(call.results) = 4
    /\ Failures(call.results) # {}
    /\ call.total_duration = 2000
    /\ ret[1].requests_per_second = F64FromNat(2)

\* rs with the outcomes at i and j exchanged
Swap(rs, i, j) == [rs EXCEPT ![i] = rs[j], ![j] = rs[i]]
\* C16: calculate_stats is order-independent and pure: the report of a
\* sequence of outcomes and the report of any permutation of it, for the same
\* total_duration, are equal in every field (stated for the exchange of any
\* two outcomes: the exchanges generate the permutations, and every sequence
\* up to MaxOutcomes is an argument), and the call leaves its argument as
\* it was.
C16_OrderIndependent ==
    /\ [](StatsReturned =>
            \A i, j \in 1..Len(call.results) :
               calculate_stats(Swap(call.results, i, j), call.total_duration) = ret[1])
    /\ [][call' = call]_vars
\* a report of outcomes that arrive out of order: the slower success first
C16_Witness ==
    /\ StatsReturned
    /\ Len(call.results) >= 3
    /\ call.results[1].success /\ call.results[1].duration = 150
    /\ ~call.results[2].success
    /\ call.results[3].success /\ call.results[3].duration = 100
    /\ ret[1].min_latency = 100
    /\ ret[1].max_latency = 150

(***************************************************************************)
(* The drivers.                                                            *)
(***************************************************************************)
HttpReturned == call.fn = "http::fire_single_request" /\ ret # None

\* C17: an HTTP driver invocation yields exactly one outcome; for a response,
\* status is the response's status code, success holds iff the code is in
\* 200..299 and error is absent; for a transport failure, status = 0,
\* success = false and error carries the failure description.
C17_HttpOutcome ==
    HttpReturned =>
        LET o == ret[1]
            net == call.net
        IN /\ Len(ret) = 1
           /\ o.duration = call.duration
           /\ net.kind = "response" =>
                 /\ o.status = net.status
                 /\ o.success <=> net.status \in 200..299
                 /\ o.error = None
           /\ net.kind = "failure" =>
                 /\ o.status = 0
                 /\ ~o.success
                 /\ o.error = Some(net.text)
\* the outcome of a 301 response: not a success, no error
C17_Witness ==
    /\ HttpReturned
    /\ call.net.kind = "response"
    /\ call.net.status = 301
    /\ ret[1].status = 301
    /\ ~ret[1].success
    /\ ret[1].error = None

KvReturned == call.fn = "flashkv::fire_single_request" /\ ret # None
\* a response line was received
KvResponded == KvReturned /\ call.net.kind = "response"
\* the line without the white space around it
Trimmed(line) ==
    LET black == {i \in 1..Len(line) : line[i] \notin WhiteChars}
    IN IF black = {} THEN <<>>
       ELSE SubSeq(line, CHOOSE i \in black : \A j \in black : i <= j,
                         CHOOSE i \in black : \A j \in black : j <= i)
\* text begins with word, in any letter case
BeginsWithAnyCase(text, word) ==
    /\ Len(word) <= Len(text)
    /\ \A i \in 1..Len(word) : ToLowerChar(text[i]) = ToLowerChar(word[i])
\* text contains word, in any letter case
ContainsAnyCase(text, word) ==
    \E k \in 0..(Len(text) - Len(word)) :
       \A i \in 1..Len(word) : ToLowerChar(text[k + i]) = ToLowerChar(word[i])
IsErrorPrefixed(text) ==
    \/ BeginsWithAnyCase(text, <<"-","E","R","R">>)
    \/ BeginsWithAnyCase(text, <<"-">>)
    \/ BeginsWithAnyCase(text, <<"E","R","R","O","R">>)
    \/ BeginsWithAnyCase(text, <<"E","R","R">>)
MentionsNotFound(text) ==
    \/ ContainsAnyCase(text, <<"N","I","L">>)
    \/ ContainsAnyCase(text, <<"N","O","T"," ","F","O","U","N","D">>)
    \/ ContainsAnyCase(text, <<"(","n","i","l",")">>)

\* C18: a response line is classified as an error exactly when, trimmed, it
\* begins with -ERR, -, ERROR or ERR in any letter case; an error response
\* yields status = ERROR, success = false and error = the response text,
\* also when it contains `not found` or `nil`.
C18_ErrorClassification ==
    KvResponded =>
        LET o == ret[1]
            text == Trimmed(call.net.line)
        IN /\ IsErrorPrefixed(text) <=> o.status = 500
           /\ IsErrorPrefixed(text) =>
                 /\ ~o.success
                 /\ o.error = Some(text)
\* `err (nil)`: an error in lower case that also says nil
C18_Witness ==
    /\ KvResponded
    /\ Trimmed(call.net.line) = <<"e","r","r"," ","(","n","i","l",")">>
    /\ ret[1].status = 500
    /\ ~ret[1].success

\* C19: a response line that is not error-prefixed yields status =
\* NOT_FOUND, success = true and no error when its text contains NIL,
\* NOT FOUND or (nil) in any letter case, and status = OK, success = true
\* and no error otherwise.
C19_NotFoundClassification ==
    (KvResponded /\ ~IsErrorPrefixed(Trimmed(call.net.line))) =>
        LET o == ret[1]
        IN /\ o.status = (IF MentionsNotFound(Trimmed(call.net.line)) THEN 404 ELSE 200)
           /\ o.success
           /\ o.error = None
\* `+Not Found`
C19_Witness ==
    /\ KvResponded
    /\ Trimmed(call.net.line) = <<"+","N","o","t"," ","F","o","u","n","d">>
    /\ ret[1].status = 404
    /\ ret[1].success
    /\ ret[1].error = None

\* C20: every KV-TCP outcome has a status among OK, NOT_FOUND, ERROR,
\* CONNECTION_ERROR, TIMEOUT (200, 404, 500, 503, 504); success = true holds
\* iff the status is OK or NOT_FOUND, and error is present iff success = false.
C20_KvOutcomeShape ==
    KvReturned =>
        LET o == ret[1]
        IN /\ o.status \in {200, 404, 500, 503, 504}
           /\ o.success <=> o.status \in {200, 404}
           /\ o.error # None <=> ~o.success
\* the outcome of a request that timed out
C20_Witness ==
    /\ KvReturned
    /\ call.net.kind = "elapsed"
    /\ ret[1].status = 504
    /\ ~ret[1].success
    /\ ret[1].error # None
\* the exchange of the called driver is over
Exchanged == exchange.result \in {"Ok(Ok)", "Ok(Err)", "Err(Elapsed)"}
\* the timer fired before execute_command finished
TimerFired == exchange.result = "Err(Elapsed)"
\* the await named step failed before the timer fired
AwaitFailed(step) == exchange.result = "Ok(Err)" /\ AwaitedStep = step

\* C21: a KV-TCP attempt whose timer fires before connect+send+receive
\* finishes has status = TIMEOUT and success = false; one whose connection
\* fails before the timer fires has status = CONNECTION_ERROR, success =
\* false and an error that carries the text of the underlying error; the
\* two statuses differ.
C21_TimeoutAndConnectionError ==
    /\ TimerFired =>
          /\ ret[1].status = STATUS_TIMEOUT
          /\ ~ret[1].success
    /\ AwaitFailed("connect") =>
          /\ ret[1].status = STATUS_CONNECTION_ERROR
          /\ ~ret[1].success
          /\ ret[1].error # None
          /\ Contains(ret[1].error[1], exchange.answer)
    /\ STATUS_TIMEOUT # STATUS_CONNECTION_ERROR
\* the part of C21 that holds: the statuses of the two cases
C21_StatusesOnly ==
    /\ TimerFired =>
          /\ ret[1].status = STATUS_TIMEOUT
          /\ ~ret[1].success
          /\ ret[1].error = Some(TimedOutText)
    /\ AwaitFailed("connect") =>
          /\ ret[1].status = STATUS_CONNECTION_ERROR
          /\ ~ret[1].success
          /\ ret[1].error = Some(ContextText("connect"))

\* the peer closed the connection before it sent a byte: read_line returned
\* Ok with an empty text
ClosedBeforeAnswer == exchange.result = "Ok(Ok)" /\ exchange.answer = <<>>

\* C22: a KV-TCP attempt whose exchange was not established or not
\* completed (the connection refused, a write or a read failed, or the peer
\* closed the connection before any response line) is recorded with
\* success = false and an error text.
C22_IncompleteExchangeFails ==
    (exchange.result = "Ok(Err)" \/ ClosedBeforeAnswer) =>
        /\ ~ret[1].success
        /\ ret[1].error # None
\* the cases of C22 in which an await returned an error
C22_IoErrorsFail ==
    exchange.result = "Ok(Err)" =>
        /\ ret[1].status = STATUS_CONNECTION_ERROR
        /\ ~ret[1].success
        /\ ret[1].error = Some(ContextText(AwaitedStep))

\* the HTTP server answered with a status outside 200..299
HttpRepliedFailure ==
    /\ HttpReturned
    /\ call.net.kind = "response"
    /\ ~(call.net.status \in 200..299)
\* the KV-TCP server answered with an error-prefixed line
KvRepliedFailure == KvResponded /\ IsErrorPrefixed(Trimmed(call.net.line))

\* C23: an attempt to which the target replied with a failure (an HTTP
\* response with a status that is not 2xx, a KV-TCP error-prefixed line) is
\* recorded with success = false and an error that is present; for KV-TCP
\* the error is the text of the line.
C23_ProtocolFailureKeepsDetail ==
    /\ HttpRepliedFailure =>
          /\ ~ret[1].success
          /\ ret[1].error # None
    /\ KvRepliedFailure =>
          /\ ~ret[1].success
          /\ ret[1].error = Some(Trimmed(call.net.line))
\* what the drivers record for a reply that signals failure
C23_ProtocolFailureRecorded ==
    /\ HttpRepliedFailure =>
          /\ ~ret[1].success
          /\ ret[1].status = call.net.status
          /\ ret[1].error = None
    /\ KvRepliedFailure =>
          /\ ~ret[1].success
          /\ ret[1].status = STATUS_ERROR
          /\ ret[1].error = Some(Trimmed(call.net.line))

(***************************************************************************)
(* The wire form and the random key of a command.                          *)
(***************************************************************************)
WireReturned == call.fn = "to_wire_format" /\ ret # None
\* the arguments of a named command, as texts, in the order of declaration
\* of the variant's fields
ArgumentsOf(c) ==
    CASE c.name \in {"PING", "FLUSHDB"} -> <<>>
      [] c.name \in {"SET", "LPUSH"} -> <<c.key, c.value>>
      [] c.name = "EXPIRE" -> <<c.key, U64ToText(c.seconds)>>
      [] c.name = "KEYS" -> <<c.pattern>>
      [] OTHER -> <<c.key>>
\* C24: for every named command, to_wire_format returns the upper-case verb
\* and the arguments in declaration order, joined by single spaces, followed
\* by one CRLF (`SET key value` gives "SET key value\r\n"); the wire form of a
\* command of any variant, raw included, ends with CRLF.
C24_WireFormat ==
    WireReturned =>
        LET c == call.self
            verb == WireVerb(c.name)
        IN /\ EndsWith(ret[1], CRLF)
           /\ c.name # "RAW" =>
                 /\ ToUpper(verb) = verb
                 /\ ret[1] = JoinSpace(<<verb>> \o ArgumentsOf(c)) \o CRLF
\* SET key value
C24_Witness ==
    /\ WireReturned
    /\ call.self = Set(<<"k","e","y">>, <<"v","a","l","u","e">>)
    /\ ret[1] = <<"S","E","T"," ","k","e","y"," ","v","a","l","u","e","\r","\n">>

RawWireReturned == WireReturned /\ call.self.name = "RAW"
\* s without its last character
ButLast(s) == SubSeq(s, 1, Len(s) - 1)

\* C25: the wire form of a raw command s is s when s ends with CRLF; s with
\* its final LF replaced by CRLF, every other character kept, when s ends
\* with an LF that no CR precedes; s followed by CRLF otherwise.  The wire
\* form of a wire form is the same text.
C25_RawWireFormat ==
    RawWireReturned =>
        LET s == call.self.command
        IN /\ ret[1] = IF EndsWith(s, CRLF) THEN s
                       ELSE IF EndsWith(s, <<"\n">>) THEN ButLast(s) \o CRLF
                       ELSE s \o CRLF
           /\ to_wire_format(Raw(ret[1])) = ret[1]

RandomKeyReturned == call.fn = "with_random_key" /\ ret # None
\* the variants that have a key field
HasKeyField(c) ==
    c.name \in {"GET", "SET", "DEL", "INCR", "DECR", "LPUSH", "LPOP", "EXISTS", "EXPIRE", "TTL"}
\* key reads `<prefix>:<k>` with k a decimal number below range
IsRandomKey(key, prefix, range) ==
    LET colon == Len(prefix) + 1
        digits == SubSeq(key, colon + 1, Len(key))
    IN /\ Len(key) > colon
       /\ SubSeq(key, 1, Len(prefix)) = prefix
       /\ key[colon] = ":"
       /\ \A i \in 1..Len(digits) : \E d \in 1..Len(DigitChars) : digits[i] = DigitChars[d]
       /\ DigitsValue(digits) \in 0..(range - 1)

\* C26: for a command with a key field, every prefix and every range >= 1,
\* with_random_key returns a command of the same variant whose key is
\* `<prefix>:<k>` with 0 <= k < range and whose value, seconds and other fields
\* are those of the original; the original command stays as it was.
C26_RandomKey ==
    /\ [](RandomKeyReturned /\ HasKeyField(call.self) /\ call.range >= 1 =>
            /\ ret[1].name = call.self.name
            /\ IsRandomKey(ret[1].key, call.prefix, call.range)
            /\ ret[1].value = call.self.value
            /\ ret[1].seconds = call.self.seconds
            /\ ret[1].pattern = call.self.pattern
            /\ ret[1].command = call.self.command)
    /\ [][call' = call]_vars
\* SET k value becomes SET key:10 value
C26_Witness ==
    /\ RandomKeyReturned
    /\ call.self = Set(<<"k">>, <<"v","a","l","u","e">>)
    /\ call.prefix = <<"k","e","y">>
    /\ call.range = 11
    /\ ret[1] = Set(<<"k","e","y",":","1","0">>, <<"v","a","l","u","e">>)

RandomKeyCalled == call.fn = "with_random_key"
\* the call ended in a panic
RandomKeyPanicked == RandomKeyCalled /\ pc = "panicked"

\* C27: for a command without a key field (PING, FLUSHDB, KEYS, raw), every
\* prefix and every range >= 0, with_random_key does not fail and returns a
\* command equal to the one it was given.
C27_NoKeyNoOp ==
    (RandomKeyCalled /\ ~HasKeyField(call.self)) =>
        /\ ~RandomKeyPanicked
        /\ ret # None => ret[1] = call.self
\* what holds for the ranges >= 1
C27_NoKeyNoOpPositiveRange ==
    (RandomKeyCalled /\ ~HasKeyField(call.self) /\ call.range >= 1) =>
        /\ ~RandomKeyPanicked
        /\ ret # None => ret[1] = call.self

(***************************************************************************)
(* The command each request of a KV-TCP run takes.                         *)
(***************************************************************************)
\* the command list of a KV-TCP run
CommandList == config.flashkv_config[1].commands
\* the tasks that have entered their driver
Entered == {i \in Units : unit[i] \in {"inflight", "done", "panicked"}}
\* the number of tasks that took the command at position p (from 0)
TimesTaken(p) ==
    Cardinality({i \in Units : base_command[i] # None /\ base_command[i][1].position = p})

\* C28: in a KV-TCP run with a command list of length L >= 1, the unit with
\* dispatch index i takes the command at position i mod L of the list, in
\* whatever order the units run; when the run returns, every command has
\* been taken floor(n/L) or ceil(n/L) times.
C28_CommandCycle ==
    (config.protocol = FlashKV /\ Len(CommandList) >= 1) =>
        LET L == Len(CommandList)
        IN /\ \A i \in Entered :
                 /\ i < n_requests
                 /\ base_command[i] =
                        Some([position |-> i % L, command |-> CommandList[(i % L) + 1]])
           /\ \A i \in Units \ Entered : base_command[i] = None
           /\ pc = "returned" =>
                 \A p \in 0..(L - 1) :
                    TimesTaken(p) \in {n_requests \div L, (n_requests + L - 1) \div L}
\* a returned run of three requests over two commands: the first command was
\* taken twice (by units 0 and 2), the second once
C28_Witness ==
    /\ config.protocol = FlashKV
    /\ n_requests = 3
    /\ Len(CommandList) = 2
    /\ pc = "returned"
    /\ TimesTaken(0) = 2
    /\ TimesTaken(1) = 1
    /\ base_command[2] = Some([position |-> 0, command |-> CommandList[1]])

(***************************************************************************)
(* Parsing a command.                                                      *)
(***************************************************************************)
FromStrReturned == call.fn = "from_str" /\ ret # None
\* the tokens after the first one
GivenArguments == Tail(call.tokens)
\* the arguments a verb cannot do without
RequiredArguments(verb) ==
    CASE verb \in {"GET", "DEL", "INCR", "DECR", "LPOP", "EXISTS", "TTL"} -> 1
      [] verb \in {"SET", "LPUSH", "EXPIRE"} -> 2
      [] OTHER -> 0
\* decimal digits, at least one
IsUnsignedInteger(token) ==
    /\ token # <<>>
    /\ \A i \in 1..Len(token) : \E d \in 1..Len(DigitChars) : token[i] = DigitChars[d]
\* the text has no token, or its verb lacks an argument, or EXPIRE is given
\* seconds that are no unsigned integer
IsMalformed ==
    \/ call.tokens = <<>>
    \/ Len(GivenArguments) < RequiredArguments(call.verb)
    \/ call.verb = "EXPIRE" /\ ~IsUnsignedInteger(GivenArguments[2])

\* C29: from_str returns an error and no command for an empty or
\* whitespace-only text, for GET, DEL, INCR, DECR, LPOP, EXISTS, TTL without
\* a key, for SET, LPUSH without a key and a value, and for EXPIRE without a
\* key and seconds that are an unsigned integer.
C29_MalformedIsError ==
    (FromStrReturned /\ IsMalformed) =>
        /\ ~ret[1].ok
        /\ ret[1].cmd.name = "NONE"
\* `Expire Key -1`: the seconds are no unsigned integer
C29_Witness ==
    /\ FromStrReturned
    /\ call.verb = "EXPIRE"
    /\ GivenArguments = <<<<"K","e","y">>, <<"-","1">>>>
    /\ ~ret[1].ok
    /\ ret[1].err = "Invalid seconds value"

\* tokens joined by single spaces
RECURSIVE SpaceJoined(_)
SpaceJoined(tokens) ==
    IF Len(tokens) = 1 THEN tokens[1]
    ELSE tokens[1] \o <<" ">> \o SpaceJoined(Tail(tokens))

\* C30: from_str matches the verb in any letter case and keeps the case of
\* the key and of the value; a text whose first token is no verb gives a raw
\* command that carries the text as it was given, and no error.
C30_VerbAnyCaseElseRaw ==
    (FromStrReturned /\ call.tokens # <<>>) =>
        /\ call.verb = "RAW" =>
              /\ ret[1].ok
              /\ ret[1].cmd = Raw(call.s)
        /\ (call.verb # "RAW" /\ ~IsMalformed) =>
              /\ ret[1].ok
              /\ ret[1].cmd.name = call.verb
              /\ RequiredArguments(call.verb) >= 1 => ret[1].cmd.key = GivenArguments[1]
              /\ call.verb \in {"SET", "LPUSH"} =>
                    ret[1].cmd.value = SpaceJoined(Tail(GivenArguments))
\* `sEt Key vAl` with white space around it
C30_Witness ==
    /\ FromStrReturned
    /\ call.tokens = <<<<"s","E","t">>, <<"K","e","y">>, <<"v","A","l">>>>
    /\ Len(call.s) > 11
    /\ ret[1].ok
    /\ ret[1].cmd = Set(<<"K","e","y">>, <<"v","A","l">>)
(***************************************************************************)
(* C33: Protocol::from_str returns for every text: Http when the text is    *)
(* `http` or `https` in any mix of upper and lower case, FlashKV when it is *)
(* `flashkv`, `kv` or `tcp` in any mix of case, and an error for every      *)
(* other text.                                                              *)
(***************************************************************************)
ProtocolReturned == pc = "function" /\ call.fn = "Protocol::from_str" /\ ret # None
C33_ProtocolFromStr ==
    /\ call.fn = "Protocol::from_str" => pc = "function"
    /\ ProtocolReturned =>
         ret[1] = IF call.name \in {<<"h","t","t","p">>, <<"h","t","t","p","s">>}
                    THEN ProtocolOk(Http)
                  ELSE IF call.name \in {<<"f","l","a","s","h","k","v">>, <<"k","v">>, <<"t","c","p">>}
                    THEN ProtocolOk(FlashKV)
                  ELSE ProtocolErr
C33_Witness ==
    /\ ProtocolReturned
    /\ call.s = <<"F","l","a","S","H","k","V">>
    /\ ret[1] = ProtocolOk(FlashKV)


(***************************************************************************)
(* C39: for every named command whose key (or pattern) is one token without *)
(* white space and whose value is made of tokens separated by single        *)
(* spaces, from_str applied to the text written by to_wire_format returns   *)
(* Ok with a command equal to the one written.                              *)
(***************************************************************************)
RoundTripReturned == pc = "function" /\ call.fn = "from_str(to_wire_format)" /\ ret # None
IsSingleToken(t) == SplitWhitespace(t) = <<t>>
IsSingleSpaced(t) == t # <<>> /\ JoinSpace(SplitWhitespace(t)) = t
IsTokenized(c) ==
    /\ c.name \in KeyedNames => IsSingleToken(c.key)
    /\ c.name = "KEYS" => IsSingleToken(c.pattern)
    /\ c.name \in {"SET", "LPUSH"} => IsSingleSpaced(c.value)
C39_RoundTrip ==
    (RoundTripReturned /\ IsTokenized(call.self)) => ret[1] = CommandOk(call.self)
C39_Witness ==
    /\ RoundTripReturned
    /\ call.self = Set(<<"U","s","e","r",":","1">>, <<"V","a","l"," ","2">>)
    /\ ret[1] = CommandOk(call.self)


(***************************************************************************)
(* C37: for every sequence of outcomes with at least one successful one the *)
(* report has min_latency <= p50 <= p95 <= p99 <= max_latency, and each of  *)
(* p50, p95, p99 lies between the successful durations that stand, in       *)
(* ascending order, at the indices floor(rank) and ceil(rank), where        *)
(* rank = (p/100) * (number of successes - 1).                              *)
(***************************************************************************)
\* the successful duration at index k (from 0) of the ascending order, found
\* by counting
DurationAt(rs, k) ==
    CHOOSE v \in {rs[i].duration : i \in Successes(rs)} :
        /\ Cardinality({i \in Successes(rs) : rs[i].duration < v}) <= k
        /\ k < Cardinality({i \in Successes(rs) : rs[i].duration <= v})
FloorRank(p, count) == (p * (count - 1)) \div 100
CeilRank(p, count) ==
    IF (p * (count - 1)) % 100 = 0 THEN FloorRank(p, count) ELSE FloorRank(p, count) + 1
C37_PercentilesOrdered ==
    (StatsReturned /\ Successes(call.results) # {}) =>
        LET st == ret[1]
            rs == call.results
            count == Cardinality(Successes(rs))
        IN /\ st.min_latency <= st.p50
           /\ st.p50 <= st.p95
           /\ st.p95 <= st.p99
           /\ st.p99 <= st.max_latency
           /\ \A field \in {"p50", "p95", "p99"} :
                 /\ DurationAt(rs, FloorRank(PercentileOf(field), count)) <= st[field]
                 /\ st[field] <= DurationAt(rs, CeilRank(PercentileOf(field), count))
\* four successes, two of 100 ms and two of 150 ms, in some order: p50 is the
\* middle of the interval [100, 150] and p95 lies above it
C37_Witness ==
    /\ StatsReturned
    /\ Len(call.results) = 4
    /\ Cardinality(Successes(call.results)) = 4
    /\ ret[1].min_latency = 100
    /\ ret[1].p50 = 125
    /\ ret[1].p50 < ret[1].p95
    /\ ret[1].p95 <= ret[1].p99
    /\ ret[1].max_latency = 150


(***************************************************************************)
(* C38: in a run of either protocol every outcome a task yields has an      *)
(* error text only when its success is false (none has success = true       *)
(* together with an error); an outcome, once yielded by its task, is never  *)
(* changed, it enters the results vector as it was yielded, the results     *)
(* vector only grows at its end, and calculate_stats is applied to the      *)
(* vector as collected.                                                     *)
(***************************************************************************)
ErrorOnlyOnFailure(o) == o.error # None => ~o.success
OutcomesKept ==
    /\ \A i \in Units : output[i] # None => output'[i] = output[i]
    /\ Len(results') >= Len(results)
    /\ SubSeq(results', 1, Len(results)) = results
    /\ Len(results') > Len(results) =>
          /\ Len(results') = Len(results) + 1
          /\ output[collected] # None
          /\ results'[Len(results')] = output[collected][1]
    /\ (pc = "running" /\ pc' = "returned") =>
          /\ results' = results
          /\ run_result'.stats.total_requests = Len(results)
          /\ run_result'.stats.successful_requests
                = Cardinality({k \in 1..Len(results) : results[k].success})
C38_OutcomesWellFormedAndKept ==
    /\ [](/\ \A i \in Units : output[i] # None => ErrorOnlyOnFailure(output[i][1])
          /\ \A k \in 1..Len(results) : ErrorOnlyOnFailure(results[k]))
    /\ [][OutcomesKept]_vars
\* a returned run whose results hold a success without an error text and a
\* failure with one, as the tasks yielded them
C38_Witness ==
    /\ pc = "returned"
    /\ run_result.kind = "Ok"
    /\ results = OutcomesFrom(0)
    /\ \E k \in 1..Len(results) : results[k].success /\ results[k].error = None
    /\ \E k \in 1..Len(results) : ~results[k].success /\ results[k].error # None
    /\ run_result.stats.total_requests = Len(results)


(***************************************************************************)
(* C31: when concurrency >= request-count, in every reachable state of a    *)
(* run every task that waits for a permit can acquire one at once (a permit *)
(* is available for each waiting task and for each task still to be         *)
(* spawned), so no task is ever blocked; all n tasks can then be inside     *)
(* their driver invocation at the same time (C31_Witness).                  *)
(***************************************************************************)
C31_NoThrottling ==
    (pc = "running" /\ config.concurrency >= n_requests) =>
        /\ \A i \in Waiting : CanAcquire(permits)
        /\ permits >= Cardinality(Waiting) + (n_requests - spawned)
\* both tasks of a run with n = c = 2 are inside the driver
C31_Witness ==
    /\ pc = "running"
    /\ n_requests = 2
    /\ config.concurrency = n_requests
    /\ InFlight = {0, 1}
    /\ permits = 0


(***************************************************************************)
(* Runs followed against the clock.                                         *)
(***************************************************************************)
Yielded == {i \in Units : output[i] # None}
RECURSIVE SumOfYieldedDurations(_)
SumOfYieldedDurations(S) ==
    IF S = {} THEN 0
    ELSE LET i == CHOOSE x \in S : TRUE
         IN output[i][1].duration + SumOfYieldedDurations(S \ {i})

(***************************************************************************)
(* C32: the timeout counts the time of a request inside its driver only: a  *)
(* task that waits for a permit has no outcome, however long it waits, and  *)
(* every FlashKV outcome with the timeout status has a duration of at least *)
(* the timeout; the step in which one task yields its outcome (a timeout    *)
(* included) changes no other task; and the run has no deadline of its own: *)
(* it returns its report only when every task has ended, however long that  *)
(* takes, and no task is ever cancelled.                                    *)
(***************************************************************************)
OthersUntouched ==
    \A i \in Units :
        (output[i] = None /\ output'[i] # None) =>
            \A j \in Units \ {i} :
                /\ unit'[j] = unit[j]
                /\ output'[j] = output[j]
                /\ holding'[j] = holding[j]
                /\ start'[j] = start[j]
C32_TimeoutPerRequest ==
    /\ [](\A i \in Units :
            /\ unit[i] = "waiting" => output[i] = None
            /\ unit[i] \in {"unspawned", "waiting", "inflight", "done", "panicked"}
            /\ (config.protocol = FlashKV /\ output[i] # None
                  /\ output[i][1].status = STATUS_TIMEOUT) =>
                    output[i][1].duration >= Timeout)
    /\ [](run_result.kind = "Ok" =>
            \A i \in Units : i < n_requests => unit[i] \in {"done", "panicked"})
    /\ [][OthersUntouched]_vars
\* with one permit, task 0 timed out and task 1, which waited meanwhile,
\* enters the driver a full timeout after the run began, its own timer at 0
C32_Witness ==
    /\ pc = "running"
    /\ config.protocol = FlashKV
    /\ config.concurrency = 1
    /\ output[0] # None
    /\ output[0][1].status = STATUS_TIMEOUT
    /\ unit[1] = "inflight"
    /\ elapsed(overall_start, start[1]) >= Timeout
    /\ TimerElapsed(1) = 0

(***************************************************************************)
(* C35: total_duration of a report is the time from overall_start, read     *)
(* before the first task is spawned and so no later than the start of any   *)
(* request, to the instant read after the last task was collected; it is at *)
(* least the duration of every collected outcome, hence at least            *)
(* max_latency; it is not the sum of the durations (C35_Witness).           *)
(***************************************************************************)
C35_TotalDuration ==
    /\ \A i \in Units : unit[i] = "inflight" => overall_start <= start[i]
    /\ run_result.kind = "Ok" =>
          /\ run_result.stats.total_duration = elapsed(overall_start, now)
          /\ \A k \in 1..Len(results) :
                run_result.stats.total_duration >= results[k].duration
          /\ run_result.stats.total_duration >= run_result.stats.max_latency
\* two requests of 500 ms each ran at the same time: the run took 500 ms
C35_Witness ==
    /\ run_result.kind = "Ok"
    /\ Len(results) = 2
    /\ results[1].duration = ClockStepMs
    /\ results[2].duration = ClockStepMs
    /\ results[1].success
    /\ run_result.stats.total_duration = ClockStepMs
    /\ run_result.stats.max_latency = ClockStepMs

(***************************************************************************)
(* C36: the duration of an outcome counts the time inside the driver, from  *)
(* `start`, read after the permit was acquired, to the end of the request;  *)
(* the time a task waits for its permit is not in it: at every instant the  *)
(* durations of the yielded outcomes add up to at most concurrency times    *)
(* the time since the run began, so with concurrency 1 the durations of the *)
(* queued tasks do not grow with their place in the queue.                  *)
(***************************************************************************)
C36_DurationExcludesQueue ==
    (pc \in {"running", "returned"} /\ run_result.kind # "Err") =>
        SumOfYieldedDurations(Yielded) <= config.concurrency * elapsed(overall_start, now)
\* with one permit two requests took 500 ms each, the second after waiting
\* for the first, and the run took 1000 ms
C36_Witness ==
    /\ run_result.kind = "Ok"
    /\ config.concurrency = 1
    /\ Len(results) = 2
    /\ results[1].duration = ClockStepMs
    /\ results[2].duration = ClockStepMs
    /\ run_result.stats.total_duration = 2 * ClockStepMs


(***************************************************************************)
(* C34: a FlashKV task opens at most one stream, by the connect of its one  *)
(* attempt, and never a second one; the awaits of the exchange are taken in *)
(* the order connect, write_all, flush, read_line, and a response comes     *)
(* from read_line on the open stream; whenever a stream is open its task    *)
(* holds its permit and is inside the driver, on every path (response,      *)
(* error, timeout), so the stream is closed before the permit is released;  *)
(* hence the open streams are at most `concurrency`, and none is open when  *)
(* run_load_test has returned.                                              *)
(***************************************************************************)
OpenStreams == {i \in Units : stream[i] = "open"}
StreamLifecycle ==
    \A i \in Units :
        /\ stream'[i] # stream[i] =>
              \/ /\ stream[i] = "none"
                 /\ stream'[i] = "open"
                 /\ ExchangeSteps[awaiting[i]] = "connect"
                 /\ attempts'[i] = 1
              \/ /\ stream[i] = "open"
                 /\ stream'[i] = "closed"
                 /\ holding[i]
        /\ awaiting'[i] # awaiting[i] =>
              \/ awaiting'[i] = awaiting[i] + 1
              \/ awaiting'[i] = 0 /\ unit'[i] = "done"
        /\ (output[i] = None /\ output'[i] # None /\ output'[i][1].status = STATUS_OK) =>
              /\ ExchangeSteps[awaiting[i]] = "read_line"
              /\ stream[i] = "open"
C34_OneStreamPerAttempt ==
    /\ [](/\ \A i \in OpenStreams : holding[i] /\ unit[i] = "inflight"
          /\ pc = "running" => Cardinality(OpenStreams) <= config.concurrency
          /\ pc = "returned" => OpenStreams = {}
          /\ \A i \in Units :
                (unit[i] = "done" /\ output[i][1].status # STATUS_CONNECTION_ERROR
                   /\ output[i][1].status # STATUS_TIMEOUT) => stream[i] = "closed")
    /\ [][StreamLifecycle]_vars
\* task 0 timed out after its stream was opened, and the stream is closed;
\* the stream of task 1 is open
C34_Witness ==
    /\ pc = "running"
    /\ output[0] # None
    /\ output[0][1].status = STATUS_TIMEOUT
    /\ stream[0] = "closed"
    /\ stream[1] = "open"
    /\ holding[1]


====
